---- MODULE Spec2Model ----
(***************************************************************************)
(* A model of the ai-helpdesk backend: the request/knowledge service       *)
(* (backend/app.py), the notification relay                                *)
(* (backend/notification_service.py) and the voice agent's subscriber      *)
(* client (backend/voice_agent.py).                                        *)
(*                                                                         *)
(* Text is modelled by TLA+ strings, one character per position, so that   *)
(* str.strip(), str.lower() and str.split("#") are computed on the         *)
(* characters.  A Python dict is a function whose DOMAIN is its key set;   *)
(* a nullable value is <<>> (None) or <<v>>.                               *)
(***************************************************************************)
EXTENDS Naturals, Sequences, FiniteSets, TLC

\* ------------------------------------------------------------------------
\* Bounds of the model.
\* ------------------------------------------------------------------------
\* number of uuid4() draws (ids of help requests)
MaxIds == 2
\* last value of the wall clock, in seconds
MaxTime == 1
\* number of websockets the notification service accepts
MaxConns == 2
\* number of websockets it accepts where the cache holds several requests
CacheConns == 1
\* number of help requests where a notification races with a deletion
RaceIds == 1

\* ------------------------------------------------------------------------
\* Text.
\* ------------------------------------------------------------------------
UpperChars == "ABCDEFGHIJKLMNOPQRSTUVWXYZ"
LowerChars == "abcdefghijklmnopqrstuvwxyz"
WhiteChars == {" ", "\t", "\n"}

CharAt(s, i) == SubSeq(s, i, i)

\* str.lower() of one character
LowerTable ==
    [ch \in {CharAt(UpperChars, i) : i \in 1..Len(UpperChars)} |->
        CharAt(LowerChars, CHOOSE i \in 1..Len(UpperChars) : CharAt(UpperChars, i) = ch)]
LowerChar(ch) == IF ch \in DOMAIN LowerTable THEN LowerTable[ch] ELSE ch

\* str.lower()
RECURSIVE Lower(_)
Lower(s) == IF Len(s) = 0 THEN ""
            ELSE LowerChar(CharAt(s, 1)) \o Lower(SubSeq(s, 2, Len(s)))

\* str.strip(): leading and trailing whitespace removed
Strip(s) ==
    LET keep == {i \in 1..Len(s) : CharAt(s, i) \notin WhiteChars}
    IN  IF keep = {} THEN ""
        ELSE SubSeq(s, CHOOSE i \in keep : \A j \in keep : i <= j,
                       CHOOSE i \in keep : \A j \in keep : j <= i)

\* x in s, for a one-character x
HasChar(s, ch) == \E i \in 1..Len(s) : CharAt(s, i) = ch

\* s.split(ch)[0]
SplitFirst(s, ch) ==
    IF HasChar(s, ch)
    THEN SubSeq(s, 1, (CHOOSE i \in 1..Len(s) :
                          /\ CharAt(s, i) = ch
                          /\ \A j \in 1..(i - 1) : CharAt(s, j) # ch) - 1)
    ELSE s

\* ------------------------------------------------------------------------
\* Python dicts.
\* ------------------------------------------------------------------------
EmptyDict == <<>>
Has(d, k) == k \in DOMAIN d
Get(d, k, dflt) == IF k \in DOMAIN d THEN d[k] ELSE dflt
Put(d, k, v) == [x \in (DOMAIN d) \cup {k} |-> IF x = k THEN v ELSE d[x]]

None == <<>>
Some(v) == <<v>>

\* ------------------------------------------------------------------------
\* Program constants.
\* ------------------------------------------------------------------------
\* the static knowledge base of app.py
KnowledgeBaseLiteral ==
    [q \in {"what are your salon hours?", "do you offer hair coloring?",
            "do you take walk-ins?", "where are you located?",
            "how much does a haircut cost?"} |->
        CASE q = "what are your salon hours?" ->
                 "We are open from 9 AM to 7 PM, Monday to Saturday."
          [] q = "do you offer hair coloring?" ->
                 "Yes, we offer a full range of hair coloring services!"
          [] q = "do you take walk-ins?" ->
                 "Yes, we accept walk-ins, but appointments are recommended for minimal wait time."
          [] q = "where are you located?" ->
                 "We're located at 123 Main Street, downtown."
          [] OTHER ->
                 "Haircuts start at $45 for short hair and $65 for long hair."]

UNKNOWN_CALLER == "Unknown Caller"
DASHBOARD == "dashboard"

\* str(uuid.uuid4())[:8]: the n-th draw, taken to differ from every other draw
IdDigits == "123456789"
uuid4(n) == "id" \o CharAt(IdDigits, n)

\* ------------------------------------------------------------------------
\* Inputs of the requests the environment sends.
\* ------------------------------------------------------------------------
CallQuestions == {"Can I pay in euros? ", "Where are you LOCATED?", "  "}
CallerInfos == {"room-1#7"}
Answers == {" Yes. ", "No"}
AgentQuestions == {"Can I pay in euros?", "where are you located?"}
RequestIds == {uuid4(n) : n \in 1..MaxIds} \cup {"nope"}
ClearCallers == {"room-1", "room-1#7"}

VARIABLES
    knowledge_base,   \* app.py knowledge_base: the static (baseline) dict
    help_requests,    \* app.py help_requests: the in-memory list of dicts
    requests_file,    \* help_requests.json, shared by app.py and voice_agent.py
    knowledge_file,   \* knowledge_base.json: the learned dict
    outbox,           \* notifications app.py has POSTed, not yet handled
    now,              \* the wall clock
    uuids,            \* number of uuid4() draws so far
    saving,           \* voice_agent.save_help_request between its read and its write
    last,             \* the last operation and its response
    resolutions,      \* request id -> answers of the resolve calls that succeeded
    acknowledged,     \* request id -> number of clear-resolved calls that succeeded
    observed,         \* the operations `last` records by name
    horizon,          \* the last value the wall clock takes in this behaviour
    faults,           \* the failures the environment may cause in this behaviour
    active_connections,  \* notification_service.py: room -> list of websockets
    pending_requests,    \* notification_service.py: room -> dict of cached requests
    sockets,          \* the websockets accepted so far, each with its handler
    publishing,       \* the notify handlers suspended in a send
    published,        \* the notify handlers that have returned
    sweeping,         \* check_connections: asleep, or suspended in a ping
    client,           \* voice_agent.py: the SalonAssistant's websocket client
    timers,           \* the requests whose threading.Timer is running
    expired,          \* the requests whose Timer has run delayed_notification
    spoken            \* request id -> number of times its answer was spoken

appVars == <<knowledge_base, help_requests, requests_file, knowledge_file,
             outbox, now, uuids, saving, last, resolutions, acknowledged>>

hubVars == <<active_connections, pending_requests, sockets, publishing, published,
             sweeping>>

clientVars == <<client, timers, expired, spoken>>

\* what is fixed for a whole behaviour
setting == <<observed, horizon, faults>>

\* what no operation of app.py and no write of the agent changes
elsewhere == <<setting, hubVars, clientVars>>

vars == <<appVars, elsewhere>>

\* one more in a tally that tells none, one and more than one apart
Tally(counts, id) ==
    Put(counts, id, IF Get(counts, id, 0) >= 2 THEN 2 ELSE Get(counts, id, 0) + 1)

\* what `last` keeps of an operation: its response if the operation is
\* observed, and no more than that it was another operation if not
Note(response) == IF response.op \in observed THEN response ELSE [op |-> "other"]

\* datetime.now(): a later read of the clock within one handler
ClockAfter(t) == {u \in {t, t + 1} : u <= horizon}

\* ------------------------------------------------------------------------
\* app.py: persistence.
\* ------------------------------------------------------------------------
Absent == [kind |-> "absent"]
\* a file json.load cannot parse, and one whose JSON is neither a list nor a dict
Corrupt == [kind |-> "corrupt"]
Scalar == [kind |-> "scalar"]
ListFile(items) == [kind |-> "list", items |-> items]
DictFile(items) == [kind |-> "dict", items |-> items]

load_help_requests(f) ==
    IF f.kind = "list" THEN f.items
    ELSE IF f.kind = "dict"
    THEN [i \in 1..Len(f.items) |->
             IF Has(f.items[i].value, "id") THEN f.items[i].value
             ELSE Put(f.items[i].value, "id", f.items[i].key)]
    ELSE <<>>

\* the copy of one request that save_help_requests writes
SavedCopy(req, t) ==
    LET r1 == IF ~Has(req, "status") THEN Put(req, "status", "Pending")
              ELSE IF req.status = "pending" THEN Put(req, "status", "Pending")
              ELSE req
    IN  IF ~Has(r1, "created_at") THEN Put(r1, "created_at", t) ELSE r1

save_help_requests(requests, t) ==
    ListFile([i \in 1..Len(requests) |-> SavedCopy(requests[i], t)])

\* save_help_requests reads the clock only for a request without created_at
SaveClock(requests, t0) ==
    IF \E i \in 1..Len(requests) : ~Has(requests[i], "created_at")
    THEN ClockAfter(t0) ELSE {t0}

load_dynamic_knowledge(f) == f

save_knowledge_base(knowledge) == knowledge

\* C6, mutated: the POST is never made
send_nothing(endpoint, data) == outbox

\* send_notification: the POST to the notification service
send_notification(endpoint, data) == outbox \cup {Put(data, "endpoint", endpoint)}

\* what becomes of a POST of send_notification: it is answered 200 (sent), or
\* it fails, having reached the notification service (a timeout, an error
\* response) or not
Transports ==
    {[sent |-> TRUE, arrives |-> TRUE]} \cup
    (IF "notify" \in faults
     THEN {[sent |-> FALSE, arrives |-> TRUE], [sent |-> FALSE, arrives |-> FALSE]}
     ELSE {})

\* whether the write of knowledge_base.json succeeds
Writes == IF "learn" \in faults THEN BOOLEAN ELSE {TRUE}

\* ------------------------------------------------------------------------
\* app.py: request models and the help request.
\* ------------------------------------------------------------------------
\* C7, mutated: the validators accept the fields without stripping them
CallRequestUnstripped(question, caller_info) ==
    [valid |-> Strip(question) # "" /\ Strip(caller_info) # "",
     question |-> question, caller_info |-> caller_info]

\* the validators strip the fields and reject none
CallRequestUnchecked(question, caller_info) ==
    [valid |-> TRUE, question |-> Strip(question), caller_info |-> Strip(caller_info)]

\* CallRequest with its validators: the fields stripped, or a validation error
CallRequest(question, caller_info) ==
    [valid |-> Strip(question) # "" /\ Strip(caller_info) # "",
     question |-> Strip(question), caller_info |-> Strip(caller_info)]

ResolveRequest(id, answer) ==
    [valid |-> Strip(id) # "" /\ Strip(answer) # "",
     id |-> Strip(id), answer |-> Strip(answer)]

\* HelpRequest(question, caller_info).to_dict()
HelpRequest(question, caller_info, id, t) ==
    [id |-> id, question |-> Lower(question), caller_info |-> caller_info,
     status |-> "Pending", created_at |-> t, resolved_at |-> None, answer |-> None]

\* caller_info.split("#")[0] if "#" in caller_info else caller_info
RoomOf(caller_info) ==
    IF HasChar(caller_info, "#") THEN SplitFirst(caller_info, "#") ELSE caller_info

\* C8, mutated: the learned answers are consulted before the static ones
LookupLearnedFirst(static, dynamic, question) ==
    IF Has(dynamic, question) THEN Some(dynamic[question])
    ELSE IF Has(static, question) THEN Some(static[question])
    ELSE None

\* the static answers are not consulted
LookupLearnedOnly(static, dynamic, question) ==
    IF Has(dynamic, question) THEN Some(dynamic[question]) ELSE None

\* the knowledge lookup of receive_call: static first, then learned
Lookup(static, dynamic, question) ==
    IF Has(static, question) THEN Some(static[question])
    ELSE IF Has(dynamic, question) THEN Some(dynamic[question])
    ELSE None

ValidationError(op) == [op |-> op, code |-> 422]

\* C18, mutated: the call fails when the notification was not sent
EscalatedIfNotified(q_in, question, caller_info, id, sent) ==
    [op |-> "call", code |-> IF sent THEN 200 ELSE 500,
     status |-> IF sent THEN "escalated" ELSE "error", input |-> q_in,
     question |-> question, caller_info |-> caller_info, help_request_id |-> id,
     notified |-> sent]

\* the response of receive_call after an escalation, with what
\* send_notification returned, which receive_call does not look at
Escalated(q_in, question, caller_info, id, sent) ==
    [op |-> "call", code |-> 200, status |-> "escalated", input |-> q_in,
     question |-> question, caller_info |-> caller_info, help_request_id |-> id,
     notified |-> sent]

\* C19, mutated: the resolution reports an error when the answer was not
\* learned or the notification was not sent
ResolvedIfAllDone(request_id, question, answer, learned, sent) ==
    [op |-> "resolve", code |-> IF learned /\ sent THEN 200 ELSE 500,
     id |-> request_id, question |-> question, answer |-> answer,
     learned |-> learned, notified |-> sent]

\* the response of resolve_request after the update, with whether the
\* answer was stored and what send_notification returned
ResolvedResponse(request_id, question, answer, learned, sent) ==
    [op |-> "resolve", code |-> 200, id |-> request_id, question |-> question,
     answer |-> answer, learned |-> learned, notified |-> sent]

\* ------------------------------------------------------------------------
\* app.py: POST /call
\* ------------------------------------------------------------------------
\* the handler, as any caller of it sees it
post_call(q_in, c_in) ==
    LET request == CallRequest(q_in, c_in)
        question == Lower(request.question)
        caller_info == request.caller_info
        room_id == RoomOf(caller_info)
        found == Lookup(knowledge_base, load_dynamic_knowledge(knowledge_file), question)
        help_request == HelpRequest(question, caller_info, uuid4(uuids + 1), now)
        appended == Append(help_requests, help_request)
        Response(r) == Note(Put(r, "body", [question |-> q_in, caller_info |-> c_in]))
    IN  IF ~request.valid
        THEN /\ last' = Response(ValidationError("call"))
             /\ UNCHANGED <<setting, hubVars, acknowledged, knowledge_base, help_requests, requests_file,
                            knowledge_file, outbox, now, uuids, saving, resolutions>>
        ELSE IF found # None
        THEN /\ last' = Response([op |-> "call", code |-> 200, status |-> "answered",
                         question |-> question, response |-> found[1]])
             /\ UNCHANGED <<setting, hubVars, acknowledged, knowledge_base, help_requests, requests_file,
                            knowledge_file, outbox, now, uuids, saving, resolutions>>
        ELSE /\ uuids < MaxIds
             /\ uuids' = uuids + 1
             /\ help_requests' = appended
             /\ \E t \in SaveClock(appended, now) :
                    /\ requests_file' = save_help_requests(appended, t)
                    /\ now' = t
             /\ \E post \in Transports :
                    /\ outbox' = IF post.arrives
                                 THEN send_notification("/notify/request-created",
                                          [room_id |-> room_id,
                                           request_id |-> help_request.id,
                                           question |-> question, status |-> "pending"])
                                 ELSE outbox
                    /\ last' = Response(Escalated(q_in, question, caller_info,
                                              help_request.id, post.sent))
             /\ UNCHANGED <<setting, hubVars, acknowledged, knowledge_base, knowledge_file, saving, resolutions>>

\* a call of a caller other than the agent
receive_call(q_in, c_in) ==
    /\ post_call(q_in, c_in)
    /\ UNCHANGED clientVars

\* ------------------------------------------------------------------------
\* app.py: POST /resolve-request
\* ------------------------------------------------------------------------
\* C3, mutated: the loop takes the first request with this id, whatever its status
FindAnyStatus(requests, request_id) ==
    LET hits == {i \in 1..Len(requests) :
                    Has(requests[i], "id") /\ requests[i].id = request_id}
    IN  IF hits = {} THEN 0 ELSE CHOOSE i \in hits : \A j \in hits : i <= j

\* the request the loop of resolve_request updates: the first one with this
\* id whose status is pending, compared case-insensitively (0: none)
FindPending(requests, request_id) ==
    LET hits == {i \in 1..Len(requests) :
                    /\ Has(requests[i], "id")
                    /\ requests[i].id = request_id
                    /\ Lower(Get(requests[i], "status", "")) = "pending"}
    IN  IF hits = {} THEN 0 ELSE CHOOSE i \in hits : \A j \in hits : i <= j

\* the update of the request found
Resolved(req, answer, t) ==
    Put(Put(Put(req, "status", "Resolved"), "resolved_at", Some(t)),
        "answer", Some(answer))

\* C5, mutated: the answer is not stored
LearnNothing(dynamic, question, answer) == dynamic

\* dynamic_knowledge[resolved_question] = answer
Learn(dynamic, question, answer) == Put(dynamic, question, answer)

LogResolution(log, id, answer) == Put(log, id, Append(Get(log, id, <<>>), answer))

resolve_request(id_in, a_in) ==
    LET request == ResolveRequest(id_in, a_in)
        request_id == request.id
        answer == request.answer
        loaded == load_help_requests(requests_file)
        i == FindPending(loaded, request_id)
        updated == [loaded EXCEPT ![i] = Resolved(loaded[i], answer, now)]
        resolved_question == Get(loaded[i], "question", "")
        caller_info == Get(loaded[i], "caller_info", UNKNOWN_CALLER)
        Response(r) == Note(Put(r, "body", [id |-> id_in, answer |-> a_in]))
    IN  IF ~request.valid
        THEN /\ last' = Response(ValidationError("resolve"))
             /\ UNCHANGED <<elsewhere, acknowledged, knowledge_base, help_requests, requests_file,
                            knowledge_file, outbox, now, uuids, saving, resolutions>>
        ELSE IF i = 0
        THEN /\ help_requests' = loaded
             /\ last' = Response([op |-> "resolve", code |-> 404, id |-> request_id])
             /\ UNCHANGED <<elsewhere, acknowledged, knowledge_base, requests_file, knowledge_file,
                            outbox, now, uuids, saving, resolutions>>
        ELSE /\ help_requests' = updated
             /\ \E t \in SaveClock(updated, now) :
                    /\ requests_file' = save_help_requests(updated, t)
                    /\ now' = t
             /\ IF resolved_question # ""
                THEN \E written \in Writes, post \in Transports :
                     /\ knowledge_file' =
                            IF written
                            THEN save_knowledge_base(
                                     Learn(load_dynamic_knowledge(knowledge_file),
                                           resolved_question, answer))
                            ELSE knowledge_file
                     /\ outbox' =
                            IF post.arrives
                            THEN send_notification("/notify/request-resolved",
                                     [room_id |-> RoomOf(caller_info),
                                      request_id |-> request_id,
                                      question |-> resolved_question, answer |-> answer,
                                      status |-> "resolved"])
                            ELSE outbox
                     /\ last' = Response(ResolvedResponse(request_id, resolved_question,
                                                      answer, written, post.sent))
                ELSE /\ last' = Response(ResolvedResponse(request_id, resolved_question,
                                                      answer, FALSE, FALSE))
                     /\ UNCHANGED <<knowledge_file, outbox>>
             /\ resolutions' = LogResolution(resolutions, request_id, answer)
             /\ UNCHANGED <<elsewhere, acknowledged, knowledge_base, uuids, saving>>

\* ------------------------------------------------------------------------
\* app.py: GET /pending-requests, /all-requests, /check-request/{id}
\* ------------------------------------------------------------------------
\* the requests get_pending_requests returns, repaired in place: `missing`
\* are the pending ones without an id, which draw one each
Repaired(requests, t, drawn) ==
    [i \in 1..Len(requests) |->
        LET req == requests[i]
            r1 == IF Has(req, "status") /\ req.status = "pending"
                  THEN Put(req, "status", "Pending") ELSE req
            missing == {j \in 1..i : ~Has(requests[j], "id")
                                     /\ Has(requests[j], "status")
                                     /\ requests[j].status \in {"pending", "Pending"}}
            r2 == IF ~Has(r1, "id") THEN Put(r1, "id", uuid4(drawn + Cardinality(missing)))
                  ELSE r1
            r3 == IF ~Has(r2, "created_at") THEN Put(r2, "created_at", t) ELSE r2
            r4 == IF ~Has(r3, "caller_info") THEN Put(r3, "caller_info", UNKNOWN_CALLER)
                  ELSE r3
        IN  IF Has(r1, "status") /\ r1.status = "Pending" THEN r4 ELSE r1]

\* every request with a status is returned
WithStatus(requests) == SelectSeq(requests, LAMBDA req : Has(req, "status"))

\* valid_requests: the requests whose status, after the repair, is "Pending"
PendingOf(requests) ==
    SelectSeq(requests, LAMBDA req : Has(req, "status") /\ req.status = "Pending")

get_pending_requests ==
    LET loaded == load_help_requests(requests_file)
        draws == Cardinality({j \in 1..Len(loaded) :
                                 /\ ~Has(loaded[j], "id")
                                 /\ Has(loaded[j], "status")
                                 /\ loaded[j].status \in {"pending", "Pending"}})
        repaired == Repaired(loaded, now, uuids)
    IN  /\ uuids + draws <= MaxIds
        /\ help_requests' = repaired
        /\ uuids' = uuids + draws
        /\ last' = Note([op |-> "pending", code |-> 200,
                         requests |-> PendingOf(repaired)])
        /\ UNCHANGED <<elsewhere, acknowledged, knowledge_base, requests_file, knowledge_file, outbox,
                       now, saving, resolutions>>

get_all_requests ==
    LET loaded == load_help_requests(requests_file)
    IN  /\ help_requests' = loaded
        /\ last' = Note([op |-> "all", code |-> 200, requests |-> loaded])
        /\ UNCHANGED <<elsewhere, acknowledged, knowledge_base, requests_file, knowledge_file, outbox,
                       now, uuids, saving, resolutions>>

\* the first request of the list with this id (0: none)
FindById(requests, request_id) ==
    LET hits == {i \in 1..Len(requests) : requests[i].id = request_id}
    IN  IF hits = {} THEN 0 ELSE CHOOSE i \in hits : \A j \in hits : i <= j

\* the request is looked up in the list in memory, without the reload
check_request_cached(request_id) ==
    LET i == FindById(help_requests, request_id)
    IN  /\ last' = Note(IF i = 0 THEN [op |-> "check", code |-> 404, id |-> request_id]
                        ELSE [op |-> "check", code |-> 200, id |-> request_id,
                              request |-> help_requests[i]])
        /\ UNCHANGED <<elsewhere, acknowledged, knowledge_base, help_requests, requests_file,
                       knowledge_file, outbox, now, uuids, saving, resolutions>>

check_request_status(request_id) ==
    LET loaded == load_help_requests(requests_file)
        i == FindById(loaded, request_id)
    IN  /\ help_requests' = loaded
        /\ last' = Note(IF i = 0 THEN [op |-> "check", code |-> 404, id |-> request_id]
                        ELSE [op |-> "check", code |-> 200, id |-> request_id,
                              request |-> loaded[i]])
        /\ UNCHANGED <<elsewhere, acknowledged, knowledge_base, requests_file, knowledge_file, outbox,
                       now, uuids, saving, resolutions>>

\* ------------------------------------------------------------------------
\* app.py: DELETE /clear-resolved/{caller_id}/{request_id}
\* ------------------------------------------------------------------------
\* what the loop of clear_resolved_request meets first: a request with this
\* id and no caller_info (KeyError), or one of this caller that is not
\* Resolved (the early return); 0 when the loop runs to its end
ClearStop(requests, caller_id, request_id) ==
    LET stops == {i \in 1..Len(requests) :
                     /\ requests[i].id = request_id
                     /\ \/ ~Has(requests[i], "caller_info")
                        \/ /\ requests[i].caller_info = caller_id
                           /\ requests[i].status # "Resolved"}
    IN  IF stops = {} THEN 0 ELSE CHOOSE i \in stops : \A j \in stops : i <= j

ClearFound(requests, caller_id, request_id) ==
    \E i \in 1..Len(requests) :
        /\ requests[i].id = request_id
        /\ requests[i].caller_info = caller_id
        /\ requests[i].status = "Resolved"

clear_resolved_request(caller_id, request_id) ==
    LET stop == ClearStop(help_requests, caller_id, request_id)
    IN  IF stop # 0
        THEN /\ last' = Note(IF ~Has(help_requests[stop], "caller_info")
                        THEN [op |-> "clear", code |-> 500, id |-> request_id,
                              caller_id |-> caller_id, success |-> FALSE]
                        ELSE [op |-> "clear", code |-> 200, id |-> request_id,
                              caller_id |-> caller_id, success |-> FALSE,
                              error |-> "Request is not in 'Resolved' state"])
             /\ UNCHANGED <<elsewhere, acknowledged, knowledge_base, help_requests, requests_file,
                            knowledge_file, outbox, now, uuids, saving, resolutions>>
        ELSE IF ~ClearFound(help_requests, caller_id, request_id)
        THEN /\ last' = Note([op |-> "clear", code |-> 200, id |-> request_id,
                         caller_id |-> caller_id, success |-> FALSE,
                         error |-> "Request not found"])
             /\ UNCHANGED <<elsewhere, acknowledged, knowledge_base, help_requests, requests_file,
                            knowledge_file, outbox, now, uuids, saving, resolutions>>
        ELSE /\ \E t \in SaveClock(help_requests, now) :
                    /\ requests_file' = save_help_requests(help_requests, t)
                    /\ now' = t
             /\ last' = Note([op |-> "clear", code |-> 200, id |-> request_id,
                         caller_id |-> caller_id, success |-> TRUE])
             /\ acknowledged' = IF "clear" \in observed
                                THEN Tally(acknowledged, request_id) ELSE acknowledged
             /\ UNCHANGED <<elsewhere, knowledge_base, help_requests, knowledge_file,
                            outbox, uuids, saving, resolutions>>

\* ------------------------------------------------------------------------
\* voice_agent.py: save_help_request, called with a fresh uuid by
\* handle_escalated_question and create_help_request.  The agent is another
\* process: its read of the file and its write are two steps.
\* ------------------------------------------------------------------------
\* existing_requests after the read: the file's dict, or {} for anything else
ExistingRequests(f) == IF f.kind = "dict" THEN f.items ELSE <<>>

\* the request id of an existing request with the same question, or None
SameQuestion(existing, question) ==
    LET hits == {i \in 1..Len(existing) :
                    Lower(Strip(Get(existing[i].value, "question", "")))
                        = Strip(Lower(question))}
    IN  IF hits = {} THEN None
        ELSE Some(existing[CHOOSE i \in hits : \A j \in hits : i <= j].key)

save_help_request_read(question) ==
    LET request_id == uuid4(uuids + 1)
        existing == ExistingRequests(requests_file)
    IN  /\ saving = None
        /\ uuids < MaxIds
        /\ uuids' = uuids + 1
        /\ saving' = IF SameQuestion(existing, question) # None THEN None
                     ELSE Some([request_id |-> request_id, question |-> question,
                                existing |-> existing])
        /\ last' = Note([op |-> "agent_read"])
        /\ UNCHANGED <<elsewhere, acknowledged, knowledge_base, help_requests, requests_file,
                       knowledge_file, outbox, now, resolutions>>

save_help_request_write ==
    /\ saving # None
    /\ requests_file' = DictFile(Append(saving[1].existing,
           [key |-> saving[1].request_id,
            value |-> [question |-> saving[1].question, timestamp |-> now,
                       status |-> "pending"]]))
    /\ saving' = None
    /\ last' = Note([op |-> "agent_write"])
    /\ UNCHANGED <<elsewhere, acknowledged, knowledge_base, help_requests, knowledge_file, outbox,
                   now, uuids, resolutions>>

\* ------------------------------------------------------------------------
\* notification_service.py.  Every handler is a coroutine of one event loop:
\* it runs alone from one await to the next, and other handlers run while it
\* is suspended in an await.  The timestamps of the events are left out.
\* ------------------------------------------------------------------------
\* list.remove(x) and del d[k]
Remove(list, x) == SelectSeq(list, LAMBDA y : y # x)
Del(d, k) == [x \in (DOMAIN d) \ {k} |-> d[x]]

\* the list a notify handler is iterating: the room's, then the dashboard's
LoopRoom(p) == IF p.loop = "room" THEN p.n.room_id ELSE DASHBOARD

\* the connection is removed and the room's list is kept, also when empty
UnregisterOnly(c) ==
    /\ active_connections' = Put(active_connections, sockets[c].room,
                                 Remove(active_connections[sockets[c].room], c))
    /\ UNCHANGED publishing

\* active_connections[room_id].remove(websocket), and del of the room's list
\* once it is empty.  A loop that iterates the deleted list object ends.
Unregister(c) ==
    LET room_id == sockets[c].room
        rest == Remove(active_connections[room_id], c)
    IN  IF rest = <<>>
        THEN /\ active_connections' = Del(active_connections, room_id)
             /\ publishing' = {IF LoopRoom(p) = room_id THEN [p EXCEPT !.live = FALSE]
                               ELSE p : p \in publishing}
        ELSE /\ active_connections' = Put(active_connections, room_id, rest)
             /\ UNCHANGED publishing

\* A room's dict of cached requests is its array of entries in insertion
\* order.  del leaves the slot of the entry in the array, marked deleted; an
\* insertion that finds the array full rebuilds it without the deleted slots.
Deleted == [id |-> "", question |-> "", status |-> "deleted", answer |-> None]

\* the slots a new dict has for entries before its first resize
DICT_USABLE == 5

\* len(d)
Used(cache) == Cardinality({i \in 1..Len(cache) : cache[i] # Deleted})

\* the entries of the dict, in the order of iteration
Compact(cache) == SelectSeq(cache, LAMBDA entry : entry # Deleted)

\* d[k] = v for a key that is not in d
Insert(cache, entry) ==
    Append(IF Len(cache) >= DICT_USABLE THEN Compact(cache) ELSE cache, entry)

\* the first entry at or after a position of the array (0: none)
NextEntry(cache, pos) ==
    LET live == {i \in pos..Len(cache) : cache[i] # Deleted}
    IN  IF live = {} THEN 0 ELSE CHOOSE i \in live : \A j \in live : i <= j

\* the connections of a room's list
Subscribed(room_id) ==
    {Get(active_connections, room_id, <<>>)[i] :
        i \in 1..Len(Get(active_connections, room_id, <<>>))}

\* the removal of websocket_endpoint when it ends: if the connection is no
\* longer in the list of its room, nothing is removed (list.remove and the
\* lookup of the room raise at line 100, and line 105 tests for it)
Leave(c) ==
    IF c \in Subscribed(sockets[c].room)
    THEN Unregister(c)
    ELSE UNCHANGED <<active_connections, publishing>>

\* the position of a request in a room's dict (0: not in it)
CachePos(cache, request_id) ==
    LET hits == {i \in 1..Len(cache) : cache[i].id = request_id}
    IN  IF hits = {} THEN 0 ELSE CHOOSE i \in hits : TRUE

\* the event the replay sends for a cached request
ReplayEvent(entry) ==
    IF entry.status = "resolved"
    THEN [type |-> "request_resolved", request_id |-> entry.id,
          question |-> entry.question, answer |-> entry.answer]
    ELSE [type |-> "request_created", request_id |-> entry.id,
          question |-> entry.question]

\* websocket_endpoint in its replay loop, from one await to the next: the
\* dict iterator's next(), which raises RuntimeError if the dict has changed
\* its size, then the send of the entry it yields, which raises if the
\* connection is gone
ReplayRaises(socks, c) ==
    \/ Used(Get(pending_requests, socks[c].room, <<>>)) # socks[c].size
    \/ /\ NextEntry(Get(pending_requests, socks[c].room, <<>>), socks[c].pos) # 0
       /\ ~socks[c].up

\* the iterator finds an entry after it has yielded as many as the dict had
\* when the iteration began (a deletion and an insertion in between): the
\* interpreter may raise RuntimeError, or yield the entry
KeysChanged(socks, c) ==
    /\ NextEntry(Get(pending_requests, socks[c].room, <<>>), socks[c].pos) # 0
    /\ socks[c].left = 0

Replay(socks, c) ==
    LET sock == socks[c]
        cache == Get(pending_requests, sock.room, <<>>)
        e == NextEntry(cache, sock.pos)
    IN  IF e = 0
        THEN [socks EXCEPT ![c].state = "listen"]
        ELSE [socks EXCEPT ![c].pos = e + 1,
                           ![c].left = IF sock.left = 0 THEN 0 ELSE sock.left - 1,
                           ![c].received = Append(@, ReplayEvent(cache[e]))]

\* the except branches of websocket_endpoint: the connection is removed and
\* the handler returns, which closes the websocket
Ended(socks, c) == [socks EXCEPT ![c].state = "ended", ![c].up = FALSE]

\* websocket_endpoint from its start: accept, registration, and the replay
\* up to its first send
Accept(room_id) ==
    LET c == Len(sockets) + 1
        size == Used(Get(pending_requests, room_id, <<>>))
        opened == Append(sockets, [room |-> room_id, state |-> "replay", pos |-> 1,
                                   size |-> size, left |-> size, up |-> TRUE,
                                   received |-> <<>>,
                                   first |-> ~Has(active_connections, room_id)])
    IN  /\ Len(sockets) < MaxConns
        /\ active_connections' =
               Put(active_connections, room_id,
                   Append(Get(active_connections, room_id, <<>>), c))
        /\ sockets' = Replay(opened, c)
        /\ UNCHANGED <<pending_requests, publishing, published, sweeping>>

\* a subscriber opens /ws/{room_id}
websocket_endpoint(room_id) ==
    /\ Accept(room_id)
    /\ UNCHANGED <<appVars, setting, clientVars>>

\* the replay loop resumes after a send
websocket_replay(c) ==
    /\ c \in 1..Len(sockets)
    /\ sockets[c].state = "replay"
    /\ \/ /\ ReplayRaises(sockets, c) \/ KeysChanged(sockets, c)
          /\ Leave(c)
          /\ sockets' = Ended(sockets, c)
       \/ /\ ~ReplayRaises(sockets, c)
          /\ sockets' = Replay(sockets, c)
          /\ UNCHANGED <<active_connections, publishing>>
    /\ UNCHANGED <<appVars, setting, clientVars, pending_requests, published, sweeping>>

\* the peer closes the connection, or the network drops it
Drop(c) ==
    /\ c \in 1..Len(sockets)
    /\ sockets[c].up
    /\ sockets' = [sockets EXCEPT ![c].up = FALSE]
    /\ UNCHANGED <<appVars, setting, clientVars, active_connections, pending_requests,
                   publishing, published, sweeping>>

\* receive_text raises WebSocketDisconnect
websocket_disconnect(c) ==
    /\ c \in 1..Len(sockets)
    /\ sockets[c].state = "listen"
    /\ ~sockets[c].up
    /\ Leave(c)
    /\ sockets' = Ended(sockets, c)
    /\ UNCHANGED <<appVars, setting, clientVars, pending_requests, published, sweeping>>

\* ------------------------------------------------------------------------
\* notification_service.py: POST /notify/request-created, /notify/request-resolved
\* ------------------------------------------------------------------------
\* pending_requests[room_id][request_id] = {...} of notify_request_created
CacheCreated(cache, n) ==
    LET entry == [id |-> n.request_id, question |-> n.question,
                  status |-> "pending", answer |-> None]
        i == CachePos(cache, n.request_id)
    IN  IF i = 0 THEN Insert(cache, entry) ELSE [cache EXCEPT ![i] = entry]

\* the resolved handler updates an entry that is there and inserts none
CacheResolvedIfThere(cache, n) ==
    LET i == CachePos(cache, n.request_id)
    IN  IF i = 0 THEN cache
        ELSE [cache EXCEPT ![i].status = "resolved", ![i].answer = n.answer]

\* the resolved request is taken out of the dict
CacheDropped(cache, n) ==
    LET i == CachePos(cache, n.request_id)
    IN  IF i = 0 THEN cache ELSE [cache EXCEPT ![i] = Deleted]

\* the update, or the insertion, of notify_request_resolved
CacheResolved(cache, n) ==
    LET i == CachePos(cache, n.request_id)
    IN  IF i = 0
        THEN Insert(cache, [id |-> n.request_id, question |-> n.question,
                            status |-> "resolved", answer |-> n.answer])
        ELSE [cache EXCEPT ![i].status = "resolved", ![i].answer = n.answer]

\* the event a notify handler sends in its loop
EventOf(n, loop) ==
    LET type == IF n.endpoint = "/notify/request-created"
                THEN "request_created" ELSE "request_resolved"
        e1 == [type |-> type, request_id |-> n.request_id, question |-> n.question]
        e2 == IF type = "request_resolved" THEN Put(e1, "answer", n.answer) ELSE e1
    IN  IF loop = "dash" THEN Put(e2, "room_id", n.room_id) ELSE e2

\* connection.send_json in a notify handler: an exception is logged, no more
send_json(socks, c, event) ==
    IF socks[c].up THEN [socks EXCEPT ![c].received = Append(@, event)] ELSE socks

\* the list object the loop of p iterates, as it is now
LoopList(p) ==
    IF p.live /\ Has(active_connections, LoopRoom(p))
    THEN active_connections[LoopRoom(p)] ELSE <<>>

\* what a notify handler has done when it returns
Returned(p) ==
    [n |-> p.n, before |-> p.before, dash_before |-> p.dash_before, failed |-> p.failed]

\* the handler after a send to c: an exception of the send is logged
AfterSend(p, c) ==
    IF sockets[c].up THEN [p EXCEPT !.sent = Tally(@, c)]
    ELSE [p EXCEPT !.failed = @ \cup {c}]

\* a notify handler runs to its next send or to its return: the next() of
\* the list iterator of the room's loop, then of the dashboard's loop
Proceed(p, others) ==
    IF p.i <= Len(LoopList(p))
    THEN /\ sockets' = send_json(sockets, LoopList(p)[p.i], EventOf(p.n, p.loop))
         /\ publishing' = others \cup {[AfterSend(p, LoopList(p)[p.i]) EXCEPT !.i = p.i + 1]}
         /\ UNCHANGED published
    ELSE IF p.loop = "room" /\ Has(active_connections, DASHBOARD)
    THEN /\ sockets' = send_json(sockets, active_connections[DASHBOARD][1],
                                 EventOf(p.n, "dash"))
         /\ publishing' = others \cup {[AfterSend(p, active_connections[DASHBOARD][1])
                                             EXCEPT !.loop = "dash", !.i = 2, !.live = TRUE]}
         /\ UNCHANGED published
    ELSE /\ published' = published \cup {Returned(p)}
         /\ publishing' = others
         /\ UNCHANGED sockets

\* a notify handler at its start
Handler(n) ==
    [n |-> n, loop |-> "room", i |-> 1, live |-> Has(active_connections, n.room_id),
     before |-> Subscribed(n.room_id), dash_before |-> Subscribed(DASHBOARD),
     failed |-> {}, sent |-> EmptyDict]

notify_request_created(n) ==
    /\ n \in outbox
    /\ n.endpoint = "/notify/request-created"
    /\ outbox' = outbox \ {n}
    /\ pending_requests' = Put(pending_requests, n.room_id,
           CacheCreated(Get(pending_requests, n.room_id, <<>>), n))
    /\ Proceed(Handler(n), publishing)
    /\ UNCHANGED <<knowledge_base, help_requests, requests_file, knowledge_file, now,
                   uuids, saving, last, resolutions, acknowledged, setting,
                   clientVars, active_connections, sweeping>>

notify_request_resolved(n) ==
    /\ n \in outbox
    /\ n.endpoint = "/notify/request-resolved"
    /\ outbox' = outbox \ {n}
    /\ pending_requests' = Put(pending_requests, n.room_id,
           CacheResolved(Get(pending_requests, n.room_id, <<>>), n))
    /\ Proceed(Handler(n), publishing)
    /\ UNCHANGED <<knowledge_base, help_requests, requests_file, knowledge_file, now,
                   uuids, saving, last, resolutions, acknowledged, setting,
                   clientVars, active_connections, sweeping>>

\* a notify handler resumes after a send
notify_resume(p) ==
    /\ p \in publishing
    /\ Proceed(p, publishing \ {p})
    /\ UNCHANGED <<appVars, setting, clientVars, active_connections, pending_requests,
                   sweeping>>

\* ------------------------------------------------------------------------
\* notification_service.py: check_connections, the task started at startup.
\* Every 30 seconds it pings the connections of a snapshot of
\* active_connections.  The pings are not kept in the log of a websocket.
\* ------------------------------------------------------------------------
\* the task in asyncio.sleep(30), with what its last tick did: the
\* connections that were in the lists when the tick began, those it pinged,
\* those whose ping raised, and whether the tick ended in the outer except
Asleep ==
    [phase |-> "asleep", start |-> {}, pinged |-> {}, failed |-> {}, aborted |-> FALSE,
     rooms |-> <<>>, conns |-> <<>>, room |-> "", conn |-> 0, raised |-> FALSE]

\* the connection whose accept created the list of the room that is there now
RoomSince(room_id) ==
    LET creators == {c \in 1..Len(sockets) : sockets[c].room = room_id /\ sockets[c].first}
    IN  CHOOSE c \in creators : \A d \in creators : d <= c

\* list(active_connections.items()): the rooms in the order of their insertion
RoomItems ==
    LET rooms == DOMAIN active_connections
        Rank(room_id) == Cardinality({r \in rooms : RoomSince(r) <= RoomSince(room_id)})
    IN  [k \in 1..Cardinality(rooms) |->
            LET room_id == CHOOSE r \in rooms : Rank(r) = k
            IN  [room |-> room_id, since |-> RoomSince(room_id)]]

\* the sweep runs to its next ping or to the end of the tick: list(connections)
\* of the next room of the snapshot is what the list object holds by now
\* (nothing, if the room has been deleted since), and conn.send_json raises
\* if the connection is gone
RECURSIVE NextPing(_, _)
NextPing(s, connections) ==
    IF s.conns # <<>>
    THEN LET conn == Head(s.conns)
         IN  [s EXCEPT !.conn = conn, !.conns = Tail(s.conns),
                       !.pinged = @ \cup {conn},
                       !.raised = ~sockets[conn].up,
                       !.failed = IF sockets[conn].up THEN @ ELSE @ \cup {conn}]
    ELSE IF s.rooms # <<>>
    THEN LET item == Head(s.rooms)
             there == /\ Has(connections, item.room)
                      /\ RoomSince(item.room) = item.since
         IN  NextPing([s EXCEPT !.rooms = Tail(s.rooms), !.room = item.room,
                                !.conns = IF there THEN connections[item.room] ELSE <<>>],
                      connections)
    ELSE [s EXCEPT !.phase = "asleep", !.conn = 0, !.room = "", !.raised = FALSE]

\* a tick begins
check_connections ==
    /\ sweeping.phase = "asleep"
    /\ sweeping' = NextPing([Asleep EXCEPT !.phase = "ping",
                                           !.start = UNION {Subscribed(r) :
                                                               r \in DOMAIN active_connections},
                                           !.rooms = RoomItems],
                            active_connections)
    /\ UNCHANGED <<appVars, setting, clientVars, active_connections, pending_requests,
                   sockets, publishing, published>>

\* the sweep resumes after a ping.  If the ping raised, the connection is
\* removed from the list of its room and the room is deleted once its list
\* is empty; if the room has been deleted meanwhile, active_connections[room_id]
\* raises KeyError, which ends the tick in the outer except
check_connections_resume ==
    /\ sweeping.phase = "ping"
    /\ IF sweeping.raised /\ ~Has(active_connections, sweeping.room)
       THEN /\ sweeping' = [sweeping EXCEPT !.phase = "asleep", !.aborted = TRUE,
                                            !.rooms = <<>>, !.conns = <<>>,
                                            !.conn = 0, !.room = "", !.raised = FALSE]
            /\ UNCHANGED <<active_connections, publishing>>
       ELSE IF sweeping.raised
       THEN /\ Unregister(sweeping.conn)
            /\ sweeping' = NextPing(sweeping, active_connections')
       ELSE /\ sweeping' = NextPing(sweeping, active_connections)
            /\ UNCHANGED <<active_connections, publishing>>
    /\ UNCHANGED <<appVars, setting, clientVars, pending_requests, sockets, published>>

\* ------------------------------------------------------------------------
\* notification_service.py: DELETE /clear-resolved/{room_id}/{request_id}.
\* Nothing in voice_agent.py and nothing in app.py sends this request:
\* the agent's _notify_answer_delivered addresses app.py only.
\* ------------------------------------------------------------------------
\* the whole dict emptied instead of one entry
ClearedRoom(cache, i) == [j \in 1..Len(cache) |-> Deleted]

\* del d[k], for the entry at position i of the array
DelEntry(cache, i) == [cache EXCEPT ![i] = Deleted]

\* what `last` keeps of a delete: the response, and a mark that tells two
\* deletes in a row apart
Cleared(room_id, request_id, code) ==
    [op |-> "hub_clear", code |-> code, room_id |-> room_id, id |-> request_id,
     turn |-> IF last.op = "hub_clear" THEN 1 - last.turn ELSE 0]

hub_clear_resolved_request(room_id, request_id) ==
    LET cache == Get(pending_requests, room_id, <<>>)
        i == CachePos(cache, request_id)
    IN  /\ IF Has(pending_requests, room_id) /\ i # 0
           THEN /\ pending_requests' =
                       Put(pending_requests, room_id, DelEntry(cache, i))
                /\ last' = Note(Cleared(room_id, request_id, 200))
           ELSE /\ last' = Note(Cleared(room_id, request_id, 404))
                /\ UNCHANGED pending_requests
        /\ UNCHANGED <<knowledge_base, help_requests, requests_file, knowledge_file,
                       outbox, now, uuids, saving, resolutions, acknowledged, setting,
                       clientVars, active_connections, sockets, publishing, published,
                       sweeping>>

\* ------------------------------------------------------------------------
\* voice_agent.py: the websocket client of the SalonAssistant of room-1.
\* ------------------------------------------------------------------------
ROOM == "room-1"

\* the retry loop of _start_websocket_client
max_retries == 5
FIRST_DELAY == 5
DELAY_CAP == 60

Min(a, b) == IF a <= b THEN a ELSE b

\* C13, mutated: the delay doubles without a cap
DoubledDelay(retry_delay) == retry_delay * 2

\* retry_delay = min(retry_delay * 2, 60)
NextDelay(retry_delay) == Min(retry_delay * 2, DELAY_CAP)

\* _start_websocket_client: websockets.connect(ws_url) succeeds and the
\* client enters its message loop
start_websocket_client ==
    /\ client.conn = 0
    /\ client.retry_count < max_retries
    /\ Accept(ROOM)
    /\ client' = [client EXCEPT !.conn = Len(sockets) + 1, !.read = 0]
    /\ UNCHANGED <<appVars, setting, timers, expired, spoken>>

\* _start_websocket_client: websockets.connect(ws_url) raises; the client
\* counts the failure, sleeps retry_delay and then increases it
connect_fails ==
    /\ client.conn = 0
    /\ client.retry_count < max_retries
    /\ client' = [client EXCEPT !.retry_count = @ + 1,
                                !.waits = Append(@, client.retry_delay),
                                !.retry_delay = NextDelay(@)]
    /\ UNCHANGED <<appVars, setting, hubVars, timers, expired, spoken>>

\* C14, mutated: the handled mark of a request is not looked at
handle_resolved_again(pending, data) ==
    IF Get(data, "request_id", "") = "" \/ Get(data, "answer", "") = ""
    THEN None
    ELSE Some([request_id |-> data.request_id, question |-> Get(data, "question", ""),
               answer |-> data.answer])

\* _handle_resolved_request up to its await asyncio.sleep(1): the request to
\* speak, or None when the event is incomplete or the request is handled
handle_resolved_request(pending, data) ==
    IF Get(data, "request_id", "") = "" \/ Get(data, "answer", "") = ""
    THEN None
    ELSE IF Has(pending, data.request_id) /\ pending[data.request_id].handled
    THEN None
    ELSE Some([request_id |-> data.request_id, question |-> Get(data, "question", ""),
               answer |-> data.answer])

\* the message loop: websocket.recv() and the dispatch on the event's type.
\* The loop awaits the handling of one event before it reads the next.
websocket_recv ==
    LET data == sockets[client.conn].received[client.read + 1]
        task == IF data.type = "request_resolved"
                THEN handle_resolved_request(client.pending, data) ELSE None
    IN  /\ client.conn # 0
        /\ client.task = None
        /\ client.read < Len(sockets[client.conn].received)
        /\ client' = [client EXCEPT
               !.read = client.read + 1,
               !.task = task,
               !.pending = IF task = None THEN client.pending
                           ELSE Put(client.pending, task[1].request_id,
                                    [handled |-> FALSE])]
        /\ UNCHANGED <<appVars, setting, hubVars, timers, expired, spoken>>

\* the message loop on a closed connection: websocket.recv() raises
\* ConnectionClosed inside the try of the loop's body, where except Exception
\* catches it and logs it, and the while True loop goes on to the next recv()
websocket_recv_closed ==
    /\ client.conn # 0
    /\ client.task = None
    /\ client.read = Len(sockets[client.conn].received)
    /\ ~sockets[client.conn].up
    /\ client' = [client EXCEPT
           !.closed_reads = IF @ >= 2 THEN 2 ELSE @ + 1]
    /\ UNCHANGED <<appVars, setting, hubVars, timers, expired, spoken>>

\* the Timer is started and the request is left unmarked
speak_then_forget(success) ==
    /\ client.task # None
    /\ spoken' = IF success THEN Tally(spoken, client.task[1].request_id) ELSE spoken
    /\ client' = [client EXCEPT !.task = None]
    /\ timers' = timers \cup {client.task[1].request_id}
    /\ UNCHANGED <<appVars, setting, hubVars, expired>>

\* _speak_resolved_answer: one of the four attempts speaks the answer, or all
\* fail; either way the request is marked handled and the Timer is started
speak_resolved_answer(success) ==
    /\ client.task # None
    /\ spoken' = IF success THEN Tally(spoken, client.task[1].request_id) ELSE spoken
    /\ client' = [client EXCEPT
           !.task = None,
           !.pending = Put(client.pending, client.task[1].request_id,
                           [handled |-> TRUE])]
    /\ timers' = timers \cup {client.task[1].request_id}
    /\ UNCHANGED <<appVars, setting, hubVars, expired>>

\* delayed_notification in the Timer's thread: asyncio.create_task finds no
\* running event loop in that thread and raises RuntimeError, so
\* _notify_answer_delivered is not scheduled
delayed_notification(request_id) ==
    /\ request_id \in timers
    /\ timers' = timers \ {request_id}
    /\ expired' = expired \cup {request_id}
    /\ UNCHANGED <<appVars, setting, hubVars, client, spoken>>

\* _notify_answer_delivered, which nothing schedules: DELETE /clear-resolved
\* of app.py for the agent's room
notify_answer_delivered(request_id) ==
    /\ Has(client.pending, request_id)
    /\ clear_resolved_request(ROOM, request_id)

\* ------------------------------------------------------------------------
\* voice_agent.py: the escalation of a question by the agent, from
\* query_knowledge_base through handle_escalated_question ("query") or from
\* the tool create_help_request ("create").
\* ------------------------------------------------------------------------
\* the age, in seconds, beyond which a recent escalation is forgotten
ESCALATION_WINDOW == 300

\* t in s
Contains(s, t) ==
    /\ Len(t) <= Len(s)
    /\ \E i \in 1..(Len(s) + 1 - Len(t)) : SubSeq(s, i, i + Len(t) - 1) = t

\* _question_recently_escalated: the entries it keeps
Purged(recent, t) ==
    [q \in {k \in DOMAIN recent : ~(t - recent[k] > ESCALATION_WINDOW)} |-> recent[q]]

\* C16, mutated: only the same question counts as recently escalated
RecentlyEscalatedExact(recent, question) ==
    Strip(Lower(question)) \in DOMAIN recent

\* _question_recently_escalated: its result, on the entries kept
question_recently_escalated(recent, question) ==
    LET question_lower == Strip(Lower(question))
    IN  \E q \in DOMAIN recent : Contains(q, question_lower) \/ Contains(question_lower, q)

\* the escalation up to the read of save_help_request: the check, the mark,
\* the uuid, and the read of help_requests.json
Escalate(question, tool) ==
    LET recent == Purged(client.recently, now)
        question_lower == Strip(Lower(question))
        request_id == uuid4(uuids + 1)
        existing == ExistingRequests(requests_file)
        same == SameQuestion(existing, question)
    IN  /\ client.escalating = None
        /\ saving = None
        /\ IF question_recently_escalated(recent, question)
           THEN /\ client' = [client EXCEPT
                       !.recently = recent,
                       !.asked = Some([question |-> question_lower, at |-> now,
                                       suppressed |-> TRUE])]
                /\ UNCHANGED <<uuids, saving>>
           ELSE /\ uuids < MaxIds
                /\ uuids' = uuids + 1
                /\ saving' = IF same # None THEN None
                             ELSE Some([request_id |-> request_id, question |-> question,
                                        existing |-> existing])
                /\ client' = [client EXCEPT
                       !.recently = Put(recent, question_lower, now),
                       !.escalating =
                           Some([question |-> question, tool |-> tool,
                                 request_id |-> IF tool = "create" /\ same # None
                                                THEN same[1] ELSE request_id]),
                       !.escalations = @ \cup {[question |-> question_lower, at |-> now]},
                       !.asked = Some([question |-> question_lower, at |-> now,
                                       suppressed |-> FALSE])]
        /\ last' = Note([op |-> "escalate"])
        /\ UNCHANGED <<setting, hubVars, timers, expired, spoken, knowledge_base,
                       help_requests, requests_file, knowledge_file, outbox, now,
                       resolutions, acknowledged>>

handle_escalated_question(question) ==
    /\ client.escalating = None
    /\ Escalate(question, "query")

create_help_request(question) ==
    /\ client.escalating = None
    /\ Escalate(question, "create")

\* the escalation after save_help_request: requests.post to /call, which
\* reaches app.py or raises, and what the agent keeps of the response
escalation_post(reached) ==
    LET e == client.escalating[1]
        accepted == reached /\ CallRequest(Strip(e.question), ROOM).valid
        request_id == IF accepted /\ uuids' # uuids THEN uuid4(uuids') ELSE e.request_id
    IN  /\ client.escalating # None
        /\ saving = None
        /\ IF reached
           THEN post_call(Strip(e.question), ROOM)
           ELSE UNCHANGED <<appVars, setting, hubVars>>
        /\ client' = [client EXCEPT
               !.escalating = None,
               !.pending = IF e.tool = "query" \/ accepted
                           THEN Put(@, request_id, [handled |-> FALSE]) ELSE @]
        /\ UNCHANGED <<timers, expired, spoken>>

ClientInit ==
    /\ client = [conn |-> 0, read |-> 0, pending |-> EmptyDict, task |-> None,
                 retry_count |-> 0, retry_delay |-> FIRST_DELAY, waits |-> <<>>,
                 closed_reads |-> 0, recently |-> EmptyDict, escalating |-> None,
                 escalations |-> {}, asked |-> None]
    /\ timers = {}
    /\ expired = {}
    /\ spoken = EmptyDict

\* ------------------------------------------------------------------------
\* The clock.
\* ------------------------------------------------------------------------
Tick ==
    /\ now < horizon
    /\ now' = now + 1
    /\ last' = Note([op |-> "tick"])
    /\ UNCHANGED <<elsewhere, acknowledged, knowledge_base, help_requests, requests_file, knowledge_file,
                   outbox, uuids, saving, resolutions>>

\* time passes between two requests
Elapse(d) ==
    /\ now + d <= horizon
    /\ now' = now + d
    /\ last' = Note([op |-> "tick"])
    /\ UNCHANGED <<elsewhere, acknowledged, knowledge_base, help_requests, requests_file,
                   knowledge_file, outbox, uuids, saving, resolutions>>

\* ------------------------------------------------------------------------
\* The request service with the agent's writes of the shared file.
\* ------------------------------------------------------------------------
AppInit ==
    /\ knowledge_base = KnowledgeBaseLiteral
    /\ help_requests = load_help_requests(Absent)
    /\ requests_file = Absent
    /\ knowledge_file = EmptyDict
    /\ outbox = {}
    /\ now = 0
    /\ uuids = 0
    /\ saving = None
    /\ last = [op |-> "start"]
    /\ resolutions = EmptyDict
    /\ acknowledged = EmptyDict

HubInit ==
    /\ active_connections = EmptyDict
    /\ pending_requests = EmptyDict
    /\ sockets = <<>>
    /\ publishing = {}
    /\ published = {}
    /\ sweeping = Asleep

\* the clock stands still; the calls, resolutions and ledger queries are observed
LedgerInit ==
    /\ AppInit
    /\ HubInit
    /\ ClientInit
    /\ observed = {"call", "resolve", "check"}
    /\ faults = {}
    /\ horizon = 0

LedgerNext ==
    \/ \E q \in CallQuestions, c \in CallerInfos : receive_call(q, c)
    \/ \E id \in RequestIds, a \in Answers : resolve_request(id, a)
    \/ get_pending_requests
    \/ get_all_requests
    \/ \E id \in RequestIds : check_request_status(id)
    \/ \E c \in ClearCallers, id \in RequestIds : clear_resolved_request(c, id)
    \/ \E q \in AgentQuestions : save_help_request_read(q)
    \/ save_help_request_write

LedgerSpec == LedgerInit /\ [][LedgerNext]_vars

\* ------------------------------------------------------------------------
\* The same, with what the queries return observed.
\* ------------------------------------------------------------------------
DurableInit ==
    /\ AppInit
    /\ HubInit
    /\ ClientInit
    /\ observed = {"call", "check", "all"}
    /\ faults = {}
    /\ horizon = 0

DurableSpec == DurableInit /\ [][LedgerNext]_vars

\* ------------------------------------------------------------------------
\* The request service under a clock that advances, also between two reads
\* of one handler.
\* ------------------------------------------------------------------------
ClockInit ==
    /\ AppInit
    /\ HubInit
    /\ ClientInit
    /\ observed = {"resolve"}
    /\ faults = {}
    /\ horizon = MaxTime

ClockNext ==
    \/ \E q \in CallQuestions, c \in CallerInfos : receive_call(q, c)
    \/ \E id \in RequestIds, a \in Answers : resolve_request(id, a)
    \/ get_pending_requests
    \/ \E q \in AgentQuestions : save_help_request_read(q)
    \/ save_help_request_write
    \/ Tick

ClockSpec == ClockInit /\ [][ClockNext]_vars

\* ------------------------------------------------------------------------
\* The notification service alone: the request service posts the two
\* notifications of one request, connections open and close.
\* ------------------------------------------------------------------------
Rooms == {"room-1", DASHBOARD}

\* what receive_call and resolve_request post for a request of room-1
HubNotifications ==
    {[endpoint |-> "/notify/request-created", room_id |-> "room-1",
      request_id |-> uuid4(1), question |-> "can i pay in euros?", status |-> "pending"],
     [endpoint |-> "/notify/request-resolved", room_id |-> "room-1",
      request_id |-> uuid4(1), question |-> "can i pay in euros?", answer |-> "Yes.",
      status |-> "resolved"]}

\* the notifications that have reached the service
Posted == outbox \cup {p.n : p \in publishing} \cup {r.n : r \in published}

\* send_notification of a notification that has not been sent before
Post(n) ==
    /\ n \notin Posted
    /\ outbox' = send_notification(n.endpoint, Del(n, "endpoint"))
    /\ UNCHANGED <<knowledge_base, help_requests, requests_file, knowledge_file, now,
                   uuids, saving, last, resolutions, acknowledged, elsewhere>>

HubSpecInit ==
    /\ AppInit
    /\ HubInit
    /\ ClientInit
    /\ observed = {}
    /\ faults = {}
    /\ horizon = 0

HubNext ==
    \/ \E n \in HubNotifications : Post(n)
    \/ \E n \in outbox : notify_request_created(n)
    \/ \E n \in outbox : notify_request_resolved(n)
    \/ \E p \in publishing : notify_resume(p)
    \/ \E room_id \in Rooms : websocket_endpoint(room_id)
    \/ \E c \in 1..Len(sockets) : websocket_replay(c)
    \/ \E c \in 1..Len(sockets) : Drop(c)
    \/ \E c \in 1..Len(sockets) : websocket_disconnect(c)

HubSpec == HubSpecInit /\ [][HubNext]_vars

\* ------------------------------------------------------------------------
\* The notification service with a request whose room is "dashboard".
\* ------------------------------------------------------------------------
\* what receive_call and resolve_request post for a caller "dashboard"
DashNotifications ==
    {[endpoint |-> "/notify/request-created", room_id |-> DASHBOARD,
      request_id |-> uuid4(1), question |-> "can i pay in euros?", status |-> "pending"],
     [endpoint |-> "/notify/request-resolved", room_id |-> DASHBOARD,
      request_id |-> uuid4(1), question |-> "can i pay in euros?", answer |-> "Yes.",
      status |-> "resolved"]}

DashNext ==
    \/ \E n \in DashNotifications : Post(n)
    \/ \E n \in outbox : notify_request_created(n)
    \/ \E n \in outbox : notify_request_resolved(n)
    \/ \E p \in publishing : notify_resume(p)
    \/ \E room_id \in Rooms : websocket_endpoint(room_id)
    \/ \E c \in 1..Len(sockets) : websocket_replay(c)
    \/ \E c \in 1..Len(sockets) : Drop(c)
    \/ \E c \in 1..Len(sockets) : websocket_disconnect(c)

DashSpec == HubSpecInit /\ [][DashNext]_vars

\* ------------------------------------------------------------------------
\* The request service from its start, asked about walk-ins.
\* ------------------------------------------------------------------------
WALK_INS == "do you take walk-ins?"
ACCEPT_WALK_INS == "do you accept walk-ins?"

ScenarioQuestions ==
    {ACCEPT_WALK_INS, WALK_INS, " Do you TAKE walk-ins?", "Can I pay in euros? "}

ScenarioInit ==
    /\ AppInit
    /\ HubInit
    /\ ClientInit
    /\ observed = {"call"}
    /\ faults = {}
    /\ horizon = 0

ScenarioNext ==
    \/ \E q \in ScenarioQuestions, c \in CallerInfos : receive_call(q, c)
    \/ \E id \in RequestIds, a \in Answers : resolve_request(id, a)
    \/ get_pending_requests

ScenarioSpec == ScenarioInit /\ [][ScenarioNext]_vars

\* ------------------------------------------------------------------------
\* The request service with its calls, resolutions and queries only; what the
\* queries return is observed.
\* ------------------------------------------------------------------------
QueryInit ==
    /\ AppInit
    /\ HubInit
    /\ ClientInit
    /\ observed = {"call", "resolve", "pending", "all"}
    /\ faults = {}
    /\ horizon = 0

QueryNext ==
    \/ \E q \in CallQuestions, c \in CallerInfos : receive_call(q, c)
    \/ \E id \in RequestIds, a \in Answers : resolve_request(id, a)
    \/ get_pending_requests
    \/ get_all_requests

QuerySpec == QueryInit /\ [][QueryNext]_vars

\* ------------------------------------------------------------------------
\* The request service with a ledger file that is damaged between two
\* requests: what load_help_requests meets in its except and else branches.
\* ------------------------------------------------------------------------
damage(f) ==
    /\ requests_file # f
    /\ requests_file' = f
    /\ last' = Note([op |-> "damage"])
    /\ UNCHANGED <<elsewhere, acknowledged, knowledge_base, help_requests, knowledge_file,
                   outbox, now, uuids, saving, resolutions>>

DamageInit ==
    /\ AppInit
    /\ HubInit
    /\ ClientInit
    /\ observed = {"call", "resolve", "pending", "all", "check"}
    /\ faults = {}
    /\ horizon = 0

DamageNext ==
    \/ \E q \in CallQuestions, c \in CallerInfos : receive_call(q, c)
    \/ \E id \in RequestIds, a \in Answers : resolve_request(id, a)
    \/ get_pending_requests
    \/ get_all_requests
    \/ \E id \in RequestIds : check_request_status(id)
    \/ \E f \in {Corrupt, Scalar} : damage(f)

DamageSpec == DamageInit /\ [][DamageNext]_vars

\* ------------------------------------------------------------------------
\* The request service with requests whose text fields are empty or blank.
\* ------------------------------------------------------------------------
BlankTexts == {"", " ", " \t\n"}
ValidationQuestions == {"Can I pay in euros? "} \cup BlankTexts
ValidationCallers == {"room-1#7"} \cup BlankTexts
ValidationIds == {uuid4(1), " " \o uuid4(1)} \cup BlankTexts
ValidationAnswers == {" Yes. "} \cup BlankTexts

ValidationInit ==
    /\ AppInit
    /\ HubInit
    /\ ClientInit
    /\ observed = {"call", "resolve"}
    /\ faults = {}
    /\ horizon = 0

ValidationNext ==
    \/ \E q \in ValidationQuestions, c \in ValidationCallers : receive_call(q, c)
    \/ \E id \in ValidationIds, a \in ValidationAnswers : resolve_request(id, a)
    \/ \E n \in outbox : notify_request_created(n)
    \/ \E n \in outbox : notify_request_resolved(n)

ValidationSpec == ValidationInit /\ [][ValidationNext]_vars

\* ------------------------------------------------------------------------
\* The cache of the notification service: notifications of two requests of
\* room-1 and of a request of room-2 with the id of the first, subscribers
\* that come and go, and deletions of cache entries, which are observed.
\* ------------------------------------------------------------------------
CacheRooms == {"room-1", "room-2"}

CacheNotifications ==
    HubNotifications \cup
    {[endpoint |-> "/notify/request-created", room_id |-> "room-1",
      request_id |-> uuid4(2), question |-> "where are you located?", status |-> "pending"],
     [endpoint |-> "/notify/request-resolved", room_id |-> "room-2",
      request_id |-> uuid4(1), question |-> "do you sell gift cards?", answer |-> "No",
      status |-> "resolved"]}

CacheInit ==
    /\ AppInit
    /\ HubInit
    /\ ClientInit
    /\ observed = {"hub_clear"}
    /\ faults = {}
    /\ horizon = 0

CacheNext ==
    \/ \E n \in CacheNotifications : Post(n)
    \/ \E n \in outbox : notify_request_created(n)
    \/ \E n \in outbox : notify_request_resolved(n)
    \/ \E p \in publishing : notify_resume(p)
    \/ \E room_id \in CacheRooms, id \in {uuid4(1), uuid4(2)} :
           hub_clear_resolved_request(room_id, id)
    \/ Len(sockets) < CacheConns /\ websocket_endpoint("room-1")
    \/ \E c \in 1..Len(sockets) : websocket_replay(c)
    \/ \E c \in 1..Len(sockets) : Drop(c)
    \/ \E c \in 1..Len(sockets) : websocket_disconnect(c)

CacheSpec == CacheInit /\ [][CacheNext]_vars

\* ------------------------------------------------------------------------
\* The replay of the cache: notifications of three requests of room-1 and of
\* a request of room-2, and a subscriber of room-1 that comes and goes.
\* ------------------------------------------------------------------------
ReplayNotifications ==
    CacheNotifications \cup
    {[endpoint |-> "/notify/request-created", room_id |-> "room-1",
      request_id |-> uuid4(3), question |-> "do you sell gift cards?", status |-> "pending"]}

ReplayInit ==
    /\ AppInit
    /\ HubInit
    /\ ClientInit
    /\ observed = {}
    /\ faults = {}
    /\ horizon = 0

ReplayNext ==
    \/ \E n \in ReplayNotifications : Post(n)
    \/ \E n \in outbox : notify_request_created(n)
    \/ \E n \in outbox : notify_request_resolved(n)
    \/ \E p \in publishing : notify_resume(p)
    \/ Len(sockets) < CacheConns /\ websocket_endpoint("room-1")
    \/ \E c \in 1..Len(sockets) : websocket_replay(c)
    \/ \E c \in 1..Len(sockets) : Drop(c)
    \/ \E c \in 1..Len(sockets) : websocket_disconnect(c)

ReplaySpec == ReplayInit /\ [][ReplayNext]_vars

\* ------------------------------------------------------------------------
\* The notification service with its keepalive sweep.
\* ------------------------------------------------------------------------
SweepNext ==
    \/ \E n \in HubNotifications : Post(n)
    \/ \E n \in outbox : notify_request_created(n)
    \/ \E n \in outbox : notify_request_resolved(n)
    \/ \E p \in publishing : notify_resume(p)
    \/ \E room_id \in Rooms : websocket_endpoint(room_id)
    \/ \E c \in 1..Len(sockets) : websocket_replay(c)
    \/ \E c \in 1..Len(sockets) : Drop(c)
    \/ \E c \in 1..Len(sockets) : websocket_disconnect(c)
    \/ check_connections
    \/ check_connections_resume

SweepSpec == HubSpecInit /\ [][SweepNext]_vars

\* ------------------------------------------------------------------------
\* The life of a cache entry: the notifications of a request of room-1 and
\* of a second request, a subscriber that comes and goes, the keepalive
\* sweep, and deletions of cache entries.
\* ------------------------------------------------------------------------
LifecycleNotifications == {n \in CacheNotifications : n.room_id = "room-1"}

LifecycleNext ==
    \/ \E n \in LifecycleNotifications : Post(n)
    \/ \E n \in outbox : notify_request_created(n)
    \/ \E n \in outbox : notify_request_resolved(n)
    \/ \E p \in publishing : notify_resume(p)
    \/ \E id \in {uuid4(1), uuid4(2)} : hub_clear_resolved_request("room-1", id)
    \/ Len(sockets) < CacheConns /\ websocket_endpoint("room-1")
    \/ \E c \in 1..Len(sockets) : websocket_replay(c)
    \/ \E c \in 1..Len(sockets) : Drop(c)
    \/ \E c \in 1..Len(sockets) : websocket_disconnect(c)
    \/ check_connections
    \/ check_connections_resume

LifecycleSpec == CacheInit /\ [][LifecycleNext]_vars

\* ------------------------------------------------------------------------
\* The handshake: a call of the agent's room is escalated and resolved, the
\* notification service relays the events, the agent's client speaks the
\* answer and starts the Timer of its acknowledgement.
\* ------------------------------------------------------------------------
HandshakeQuestions == {"Can I pay in euros? "}
HandshakeAnswers == {" Yes. "}

HandshakeInit ==
    /\ AppInit
    /\ HubInit
    /\ ClientInit
    /\ observed = {"clear"}
    /\ faults = {}
    /\ horizon = 0

HandshakeNext ==
    \/ \E q \in HandshakeQuestions : receive_call(q, ROOM)
    \/ \E id \in RequestIds, a \in HandshakeAnswers : resolve_request(id, a)
    \/ \E n \in outbox : notify_request_created(n)
    \/ \E n \in outbox : notify_request_resolved(n)
    \/ \E p \in publishing : notify_resume(p)
    \/ start_websocket_client
    \/ \E c \in 1..Len(sockets) : websocket_replay(c)
    \/ websocket_recv
    \/ \E success \in BOOLEAN : speak_resolved_answer(success)
    \/ \E id \in timers : delayed_notification(id)

HandshakeSpec == HandshakeInit /\ [][HandshakeNext]_vars

\* ------------------------------------------------------------------------
\* The race of a resolution's notification with the deletion of its cache
\* entry: calls of room-1 are escalated and resolved, the notification
\* service relays the events to a subscriber of room-1, and the cache
\* entries of the requests are deleted at any point.
\* ------------------------------------------------------------------------
RaceRequests == {uuid4(n) : n \in 1..RaceIds}

RaceNext ==
    \/ \E q \in HandshakeQuestions : uuids < RaceIds /\ receive_call(q, ROOM)
    \/ \E id \in RaceRequests, a \in HandshakeAnswers : resolve_request(id, a)
    \/ \E n \in outbox : notify_request_created(n)
    \/ \E n \in outbox : notify_request_resolved(n)
    \/ \E p \in publishing : notify_resume(p)
    \/ \E id \in RaceRequests : hub_clear_resolved_request(ROOM, id)
    \/ Len(sockets) < CacheConns /\ websocket_endpoint(ROOM)
    \/ \E c \in 1..Len(sockets) : websocket_replay(c)
    \/ \E c \in 1..Len(sockets) : Drop(c)
    \/ \E c \in 1..Len(sockets) : websocket_disconnect(c)

RaceSpec == CacheInit /\ [][RaceNext]_vars

\* ------------------------------------------------------------------------
\* The request service with the agent's writes of the shared file, the
\* acknowledgements of delivery observed.
\* ------------------------------------------------------------------------
AckInit ==
    /\ AppInit
    /\ HubInit
    /\ ClientInit
    /\ observed = {"clear"}
    /\ horizon = 0
    /\ faults = {}

AckNext ==
    \/ \E q \in CallQuestions, c \in CallerInfos : receive_call(q, c)
    \/ \E id \in RequestIds, a \in Answers : resolve_request(id, a)
    \/ get_pending_requests
    \/ \E c \in ClearCallers, id \in RequestIds : clear_resolved_request(c, id)
    \/ \E q \in AgentQuestions : save_help_request_read(q)
    \/ save_help_request_write

AckSpec == AckInit /\ [][AckNext]_vars

\* ------------------------------------------------------------------------
\* The request service when the write of the learned answers and the POST
\* to the notification service may fail.
\* ------------------------------------------------------------------------
FaultInit ==
    /\ AppInit
    /\ HubInit
    /\ ClientInit
    /\ observed = {"call", "resolve"}
    /\ horizon = 0
    /\ faults = {"learn", "notify"}

FaultNext ==
    \/ \E q \in CallQuestions, c \in CallerInfos : receive_call(q, c)
    \/ \E id \in RequestIds, a \in Answers : resolve_request(id, a)
    \/ get_pending_requests
    \/ get_all_requests

FaultSpec == FaultInit /\ [][FaultNext]_vars

\* ------------------------------------------------------------------------
\* The agent escalates questions, some of them parts of others, within
\* five minutes of each other and later.
\* ------------------------------------------------------------------------
EscalationQuestions ==
    {"Do you have bridal makeup", "do you have bridal makeup services ",
     "bridal makeup", "Can I pay in euros?"}

\* just within the window, at its end, and just beyond it
Delays == {ESCALATION_WINDOW - 1, ESCALATION_WINDOW, ESCALATION_WINDOW + 1}

EscalationInit ==
    /\ AppInit
    /\ HubInit
    /\ ClientInit
    /\ observed = {"call"}
    /\ horizon = ESCALATION_WINDOW + MaxTime
    /\ faults = {}

EscalationNext ==
    \/ \E q \in EscalationQuestions : handle_escalated_question(q)
    \/ \E q \in EscalationQuestions : create_help_request(q)
    \/ save_help_request_write
    \/ \E reached \in BOOLEAN : escalation_post(reached)
    \/ \E d \in Delays : Elapse(d)

EscalationSpec == EscalationInit /\ [][EscalationNext]_vars

\* ------------------------------------------------------------------------
\* The agent's client and the notification service: the client connects,
\* or fails to, beside another subscriber of its room; connections drop.
\* ------------------------------------------------------------------------
ClientSpecInit ==
    /\ AppInit
    /\ HubInit
    /\ ClientInit
    /\ observed = {}
    /\ horizon = 0
    /\ faults = {}

ClientNext ==
    \/ \E n \in HubNotifications : Post(n)
    \/ \E n \in outbox : notify_request_created(n)
    \/ \E n \in outbox : notify_request_resolved(n)
    \/ \E p \in publishing : notify_resume(p)
    \/ start_websocket_client
    \/ connect_fails
    \/ websocket_endpoint(ROOM)
    \/ \E c \in 1..Len(sockets) : websocket_replay(c)
    \/ \E c \in 1..Len(sockets) : Drop(c)
    \/ \E c \in 1..Len(sockets) : websocket_disconnect(c)
    \/ websocket_recv
    \/ websocket_recv_closed
    \/ \E success \in BOOLEAN : speak_resolved_answer(success)
    \/ \E id \in timers : delayed_notification(id)

ClientSpec == ClientSpecInit /\ [][ClientNext]_vars

\* ------------------------------------------------------------------------
\* Properties of the request ledger and the knowledge store.
\* ------------------------------------------------------------------------
\* the ledger as persisted, in the form every reload reads it
Ledger == load_help_requests(requests_file)

EntriesOf(requests, id) == {i \in 1..Len(requests) : Get(requests[i], "id", "") = id}

IsPending(req) == Lower(Get(req, "status", "")) = "pending"

Normalized(q) == Lower(Strip(q))

\* C2: for every request id at most one resolve call ever succeeds, and the
\* answer the ledger stores for the id is the answer of that call.
C2_AtMostOneResolve ==
    \A id \in DOMAIN resolutions :
        /\ Len(resolutions[id]) <= 1
        /\ \A i \in EntriesOf(Ledger, id) :
              Get(Ledger[i], "answer", None) \in {None, Some(resolutions[id][1])}

\* C3: a resolve of an id that the ledger does not hold, or holds with a
\* status other than pending, answers 404 and changes neither the persisted
\* ledger, nor the learned answers, nor the notifications sent.
C3_FailedResolveChangesNothing ==
    [][\A id \in RequestIds :
          (/\ last'.op = "resolve"
           /\ last'.code # 422
           /\ last'.id = id
           /\ \A i \in EntriesOf(Ledger, id) : ~IsPending(Ledger[i]))
          => /\ last'.code = 404
             /\ requests_file' = requests_file
             /\ knowledge_file' = knowledge_file
             /\ knowledge_base' = knowledge_base
             /\ outbox' = outbox
             /\ resolutions' = resolutions]_vars

\* C3, its case: a resolve of an id the ledger holds as Resolved was refused
C3_RefusedResolved ==
    /\ last.op = "resolve"
    /\ last.code = 404
    /\ \E i \in EntriesOf(Ledger, last.id) : Ledger[i].status = "Resolved"

\* C4: in every state every ledger entry is Resolved exactly if it has an
\* answer and a resolved_at that is not before its created_at, and a pending
\* entry has neither answer nor resolved_at.
C4_EntryInvariant ==
    \A i \in 1..Len(Ledger) :
        LET e == Ledger[i]
            answer == Get(e, "answer", None)
            resolved_at == Get(e, "resolved_at", None)
        IN  /\ (e.status = "Resolved") <=>
                   (/\ answer # None
                    /\ resolved_at # None
                    /\ Has(e, "created_at")
                    /\ resolved_at[1] >= e.created_at)
            /\ IsPending(e) => (answer = None /\ resolved_at = None)

\* C5, as stated: a successful resolve of a request with normalized question
\* q and answer a stores q -> a in the learned answers, and a call with q
\* that follows it is answered with a and leaves the ledger unchanged.
C5_LearnedAnswerReturned ==
    [][/\ (last'.op = "resolve" /\ last'.code = 200)
          => Get(load_dynamic_knowledge(knowledge_file'), last'.question, "") = last'.answer
       /\ (/\ last.op = "resolve"
           /\ last.code = 200
           /\ last.question = Normalized(last.question)
           /\ last'.op = "call"
           /\ last'.code = 200
           /\ last'.question = last.question)
          => /\ last'.status = "answered"
             /\ last'.response = last.answer
             /\ help_requests' = help_requests
             /\ requests_file' = requests_file]_vars

\* C5, amended: a successful resolve of a request with normalized question q
\* and answer a stores q -> a in the learned answers, and a call with q that
\* follows it leaves the ledger unchanged and is answered with a, unless q is
\* a question of the static knowledge base: then it is answered with the
\* static answer.
C5_LearnedAnswerUnlessStatic ==
    [][/\ (last'.op = "resolve" /\ last'.code = 200)
          => Get(load_dynamic_knowledge(knowledge_file'), last'.question, "") = last'.answer
       /\ (/\ last.op = "resolve"
           /\ last.code = 200
           /\ last.question = Normalized(last.question)
           /\ last'.op = "call"
           /\ last'.code = 200
           /\ last'.question = last.question)
          => /\ last'.status = "answered"
             /\ last'.response = IF last.question \in DOMAIN KnowledgeBaseLiteral
                                 THEN KnowledgeBaseLiteral[last.question]
                                 ELSE last.answer
             /\ help_requests' = help_requests
             /\ requests_file' = requests_file]_vars

\* C5, its case: a call was answered with the answer learned for its question
C5_AnsweredFromLearned ==
    /\ last.op = "call"
    /\ last.code = 200
    /\ last.status = "answered"
    /\ last.question \notin DOMAIN KnowledgeBaseLiteral
    /\ Has(knowledge_file, last.question)
    /\ knowledge_file[last.question] = last.response
    /\ \E id \in DOMAIN resolutions : last.response = resolutions[id][Len(resolutions[id])]

\* C6: a call creates a ledger entry exactly if the lookup misses.  On a hit
\* it is answered, and ledger and notifications are unchanged.  On a miss
\* exactly one Pending entry is appended to the ledger and persisted, one
\* request-created notification for the caller's room is sent, the response
\* is escalated with the entry's id, and the pending requests hold the entry.
C6_EntryIffMiss ==
    [][(last'.op = "call" /\ last'.code = 200) =>
          LET q == last'.question
              old == Len(help_requests)
          IN  IF Has(knowledge_base, q) \/ Has(load_dynamic_knowledge(knowledge_file), q)
              THEN /\ last'.status = "answered"
                   /\ help_requests' = help_requests
                   /\ requests_file' = requests_file
                   /\ outbox' = outbox
              ELSE /\ last'.status = "escalated"
                   /\ Len(help_requests') = old + 1
                   /\ SubSeq(help_requests', 1, old) = help_requests
                   /\ help_requests'[old + 1].status = "Pending"
                   /\ help_requests'[old + 1].id = last'.help_request_id
                   /\ help_requests'[old + 1].question = q
                   /\ EntriesOf(help_requests, last'.help_request_id) = {}
                   /\ outbox' = outbox \cup
                         {[endpoint |-> "/notify/request-created",
                           room_id |-> SplitFirst(last'.caller_info, "#"),
                           request_id |-> last'.help_request_id,
                           question |-> q, status |-> "pending"]}
                   /\ Cardinality(outbox') = Cardinality(outbox) + 1
                   /\ \E i \in EntriesOf(PendingOf(Ledger'), last'.help_request_id) :
                         PendingOf(Ledger')[i].question = q]_vars

\* C6, its case: a call missed and was escalated while the ledger held an entry
C6_Escalated ==
    /\ last.op = "call"
    /\ last.code = 200
    /\ last.status = "escalated"
    /\ Len(help_requests) >= 2
    /\ EntriesOf(Ledger, last.help_request_id) # {}

C8_BaselineWins ==
    /\ knowledge_base = KnowledgeBaseLiteral
    /\ \A q \in DOMAIN KnowledgeBaseLiteral :
          Lookup(knowledge_base, load_dynamic_knowledge(knowledge_file), q)
              = Some(KnowledgeBaseLiteral[q])
    /\ (last.op = "call" /\ last.code = 200 /\ last.question \in DOMAIN KnowledgeBaseLiteral)
          => (last.status = "answered" /\ last.response = KnowledgeBaseLiteral[last.question])

\* C8, its case: a call asked a static question for which a conflicting
\* answer has been learned
C8_ConflictLearned ==
    /\ last.op = "call"
    /\ last.code = 200
    /\ last.question \in DOMAIN KnowledgeBaseLiteral
    /\ Has(knowledge_file, last.question)
    /\ knowledge_file[last.question] # KnowledgeBaseLiteral[last.question]

\* C17: no store of the ledger file by one operation overwrites the update of
\* another: every entry of the persisted ledger is still in it after every
\* step, and an entry that was Resolved is still Resolved with its answer.
C17_NoUpdateOverwritten ==
    [][\A i \in 1..Len(Ledger) :
          \E j \in EntriesOf(Ledger', Ledger[i].id) :
              Ledger[i].status = "Resolved"
                  => /\ Ledger'[j].status = "Resolved"
                     /\ Ledger'[j].answer = Ledger[i].answer]_vars

\* C18: when the created-notification of an escalation is not sent, the call
\* still answers 200 with status escalated and the id of the new entry, the
\* entry is Pending in the ledger, in memory and as persisted, and the
\* pending requests hold it.
C18_EscalatedWithoutNotification ==
    [][(last'.op = "call" /\ last'.code # 422 /\ last'.status # "answered"
        /\ ~last'.notified)
       => /\ last'.code = 200
          /\ last'.status = "escalated"
          /\ \E i \in EntriesOf(help_requests', last'.help_request_id) :
                help_requests'[i].status = "Pending"
          /\ \E i \in EntriesOf(Ledger', last'.help_request_id) :
                Ledger'[i].status = "Pending"
          /\ EntriesOf(PendingOf(Repaired(Ledger', now', uuids')),
                       last'.help_request_id) # {}
          /\ EntriesOf(Ledger, last'.help_request_id) = {}]_vars

\* C18, its case: a call was escalated although its notification never
\* reached the notification service
C18_EscalatedUnnotified ==
    /\ last.op = "call"
    /\ last.code = 200
    /\ last.status = "escalated"
    /\ ~last.notified
    /\ \A n \in outbox : n.request_id # last.help_request_id
    /\ EntriesOf(Ledger, last.help_request_id) # {}

\* C19: a resolve learns and notifies only when it has made a request
\* Resolved; and when the learned answer is not stored or the notification
\* is not sent, the resolve still answers 200 and the request is Resolved
\* with the answer, in memory and as persisted.
C19_ResolutionNotRolledBack ==
    [][last'.op = "resolve" =>
          /\ (knowledge_file' # knowledge_file \/ outbox' # outbox)
                 => /\ last'.code = 200
                    /\ \E i \in EntriesOf(Ledger, last'.id) : IsPending(Ledger[i])
                    /\ \E i \in EntriesOf(Ledger', last'.id) :
                          Ledger'[i].status = "Resolved"
          /\ (/\ last'.code \notin {404, 422}
              /\ last'.question # ""
              /\ ~(last'.learned /\ last'.notified))
                 => /\ last'.code = 200
                    /\ \E i \in EntriesOf(Ledger', last'.id) :
                          /\ Ledger'[i].status = "Resolved"
                          /\ Ledger'[i].answer = Some(last'.answer)
                    /\ \E i \in EntriesOf(help_requests', last'.id) :
                          /\ help_requests'[i].status = "Resolved"
                          /\ help_requests'[i].answer = Some(last'.answer)]_vars

\* C19, its case: a resolve succeeded although the answer was not stored
\* and the notification was not sent
C19_ResolvedWithFailures ==
    /\ last.op = "resolve"
    /\ last.code = 200
    /\ last.question # ""
    /\ ~last.learned
    /\ ~last.notified
    /\ ~Has(knowledge_file, last.question)
    /\ \E i \in EntriesOf(Ledger, last.id) : Ledger[i].status = "Resolved"

\* the status, answer and resolved_at of a ledger entry
Lifecycle(req) ==
    <<Lower(Get(req, "status", "")), Get(req, "answer", None),
      Get(req, "resolved_at", None)>>

\* C20: an acknowledgement of delivery for (channel, id) succeeds exactly
\* when the ledger holds an entry with this id, this channel and status
\* Resolved; and whether it succeeds or fails, every entry of the ledger, in
\* memory and as persisted, is there afterwards with the same status, answer
\* and resolved_at.
C20_AcknowledgeFrame ==
    [][last'.op = "clear" =>
          /\ (last'.code = 200 /\ last'.success)
                 <=> \E i \in EntriesOf(help_requests, last'.id) :
                        /\ Get(help_requests[i], "caller_info", "") = last'.caller_id
                        /\ help_requests[i].status = "Resolved"
          /\ help_requests' = help_requests
          /\ \A i \in 1..Len(Ledger) :
                \E j \in EntriesOf(Ledger', Ledger[i].id) :
                    Lifecycle(Ledger'[j]) = Lifecycle(Ledger[i])]_vars

\* the cached entry of a request of a room, None if there is none
Cached(cache, room_id, request_id) ==
    LET entries == Get(cache, room_id, <<>>)
        i == CachePos(entries, request_id)
    IN  IF i = 0 THEN None ELSE Some(entries[i])

\* a step of POST /call that asks this question while nothing is learned
AsksUnlearned(question) ==
    /\ last' # last
    /\ last'.op = "call"
    /\ last'.body.question = question
    /\ load_dynamic_knowledge(knowledge_file) = EmptyDict

\* C23, as stated: with nothing learned, a call that asks "do you accept
\* walk-ins?" is answered, and the ledger is as before.
C23_AcceptWalkInsAnswered ==
    [][AsksUnlearned(ACCEPT_WALK_INS)
       => /\ last'.code = 200
          /\ last'.status = "answered"
          /\ help_requests' = help_requests
          /\ requests_file' = requests_file]_vars

\* C23, amended: with nothing learned, a call that asks "do you take
\* walk-ins?" is answered with the static answer and the ledger is as
\* before; a call that asks "do you accept walk-ins?" is escalated, and the
\* ledger has one more entry, Pending, with that question.
C23_TakeWalkInsAnswered ==
    [][/\ AsksUnlearned(WALK_INS)
          => /\ last'.code = 200
             /\ last'.status = "answered"
             /\ last'.response = KnowledgeBaseLiteral[WALK_INS]
             /\ help_requests' = help_requests
             /\ requests_file' = requests_file
       /\ AsksUnlearned(ACCEPT_WALK_INS)
          => /\ last'.code = 200
             /\ last'.status = "escalated"
             /\ Len(help_requests') = Len(help_requests) + 1
             /\ help_requests'[Len(help_requests')].question = ACCEPT_WALK_INS
             /\ help_requests'[Len(help_requests')].status = "Pending"
             /\ Ledger' = help_requests']_vars

\* C23, its case: the first call of the service asked "do you take
\* walk-ins?" and was answered; nothing is learned and the ledger is empty
C23_BaselineHit ==
    /\ last.op = "call"
    /\ last.body.question = WALK_INS
    /\ last.status = "answered"
    /\ knowledge_file = EmptyDict
    /\ help_requests = <<>>
    /\ requests_file = Absent

\* a text field that is empty or holds whitespace only
IsBlank(text) == Strip(text) = ""

\* C22: a call whose question or caller_info is blank, and a resolution
\* whose id or answer is blank, is answered 422, and nothing but the record
\* of that response changes: the ledger in memory and on file, the learned
\* answers, the notifications posted and the cache of the notification
\* service are as before.
C22_BlankRejectedUnchanged ==
    [][(/\ last' # last
        /\ last'.op \in {"call", "resolve"}
        /\ \E field \in DOMAIN last'.body : IsBlank(last'.body[field]))
       => /\ last'.code = 422
          /\ UNCHANGED <<knowledge_base, help_requests, requests_file, knowledge_file,
                         outbox, now, uuids, saving, resolutions, acknowledged,
                         elsewhere>>]_vars

\* a resolution with a blank answer has been refused while its request is
\* pending in the ledger and cached by the notification service
C22_BlankAnswerRefused ==
    /\ last.op = "resolve"
    /\ last.code = 422
    /\ ~IsBlank(last.body.id)
    /\ IsBlank(last.body.answer)
    /\ \E i \in EntriesOf(help_requests, Strip(last.body.id)) :
           help_requests[i].status = "Pending"
    /\ Cached(pending_requests, "room-1", Strip(last.body.id)) # None

\* ------------------------------------------------------------------------
\* Properties of the notification service.
\* ------------------------------------------------------------------------
\* the websocket is open: its peer is there and its handler has not returned
IsOpen(c) == sockets[c].up /\ sockets[c].state # "ended"

\* the websocket has been sent an event of one of these types for the request
Sent(c, types, request_id) ==
    \E k \in 1..Len(sockets[c].received) :
        /\ sockets[c].received[k].type \in types
        /\ sockets[c].received[k].request_id = request_id

\* C9: once the publish of a created-event on a channel has returned, every
\* open connection that was subscribed to the channel before the publish has
\* been sent an event for the request, and so has every open connection
\* that subscribed later and has finished the replay of the cache.
C9_SubscribersObserve ==
    \A r \in published :
        r.n.endpoint = "/notify/request-created" =>
            /\ \A c \in r.before :
                  IsOpen(c) =>
                      Sent(c, {"request_created", "request_resolved"}, r.n.request_id)
            /\ \A c \in (1..Len(sockets)) \ r.before :
                  (/\ sockets[c].room = r.n.room_id
                   /\ sockets[c].state = "listen"
                   /\ IsOpen(c))
                  => Sent(c, {"request_created", "request_resolved"}, r.n.request_id)

\* C10: once the publish of an event has returned, every open connection
\* that was subscribed to "dashboard" when it began has been sent the event.
C10_DashboardObserves ==
    \A r \in published :
        \A c \in r.dash_before :
            IsOpen(c) =>
                Sent(c, {IF r.n.endpoint = "/notify/request-created"
                         THEN "request_created" ELSE "request_resolved"},
                     r.n.request_id)

\* C11: on every connection and for every request id, no request_created
\* event for the id is sent after a request_resolved event for the same id,
\* pushes and replays counted together.
C11_CreatedNeverAfterResolved ==
    \A c \in 1..Len(sockets) :
        \A k \in 1..Len(sockets[c].received) :
            \A l \in (k + 1)..Len(sockets[c].received) :
                ~(/\ sockets[c].received[k].type = "request_resolved"
                  /\ sockets[c].received[l].type = "request_created"
                  /\ sockets[c].received[l].request_id
                         = sockets[c].received[k].request_id)

\* the keys room/request of the cache
CacheKeys(cache) ==
    UNION {{<<room_id, cache[room_id][i].id>> :
               i \in {j \in 1..Len(cache[room_id]) : cache[room_id][j] # Deleted}} :
           room_id \in DOMAIN cache}

\* a step of DELETE /clear-resolved
IsDelete == last' # last /\ last'.op = "hub_clear"

\* C21: a delete of room/request answers 200 exactly when the cache holds
\* that entry; it then removes that entry and no other, and the entries that
\* remain keep their content and their order; when the entry is absent it
\* answers 404 and the cache is as before; the subscriptions and the
\* connections are unchanged in both cases.
C21_DeleteExactlyOne ==
    [][IsDelete =>
          /\ last'.code \in {200, 404}
          /\ (last'.code = 200)
                 <=> Cached(pending_requests, last'.room_id, last'.id) # None
          /\ last'.code = 200 =>
                 /\ CacheKeys(pending_requests')
                        = CacheKeys(pending_requests) \ {<<last'.room_id, last'.id>>}
                 /\ \A k \in CacheKeys(pending_requests') :
                        Cached(pending_requests', k[1], k[2])
                            = Cached(pending_requests, k[1], k[2])
                 /\ \A room_id \in DOMAIN pending_requests :
                        Compact(pending_requests'[room_id])
                            = SelectSeq(Compact(pending_requests[room_id]),
                                  LAMBDA entry :
                                      ~(room_id = last'.room_id /\ entry.id = last'.id))
          /\ last'.code = 404 => pending_requests' = pending_requests
          /\ active_connections' = active_connections
          /\ sockets' = sockets]_vars

\* an entry has been deleted from a room's cache that keeps another entry,
\* while another room has an entry of the same id and a subscriber is there
C21_DeletedOne ==
    /\ last.op = "hub_clear"
    /\ last.code = 200
    /\ last.room_id = "room-1"
    /\ Cached(pending_requests, "room-1", last.id) = None
    /\ Cached(pending_requests, "room-2", last.id) # None
    /\ Used(Get(pending_requests, "room-1", <<>>)) = 1
    /\ Has(active_connections, "room-1")
\* the notify handlers that return in a step
Returning == published' \ published

\* C25: when a notify handler returns, no connection to which one of its
\* sends has failed is in the list of connections of its room.
C25_FailedSendRemoved ==
    [][\A r \in Returning :
          \A c \in r.failed : c \notin Subscribed(sockets[c].room)']_vars

\* what a subscriber of the room, or of the dashboard, is sent for n
TypeOf(n) ==
    IF n.endpoint = "/notify/request-created" THEN "request_created" ELSE "request_resolved"

\* C26: when a notify handler returns after one of its sends has failed,
\* every other connection that was subscribed to the room or to "dashboard"
\* when it began and is open has been sent the event, and the cache holds
\* the request.
C26_FailedSendDoesNotAbort ==
    [][\A r \in Returning :
          r.failed # {} =>
              /\ \A c \in (r.before \cup r.dash_before) \ r.failed :
                     IsOpen(c)' => Sent(c, {TypeOf(r.n)}, r.n.request_id)'
              /\ Cached(pending_requests', r.n.room_id, r.n.request_id) # None]_vars

\* the step is the start of the handler of the notification n
Handles(n) == n \in outbox /\ n \notin outbox'

\* C27: the handler of a created notification leaves the cache with a
\* pending entry for room/request and with every key it had; the handler of
\* a resolved notification leaves it with a resolved entry carrying the
\* answer, in the slot and with the question of the entry that was there,
\* or appended with the notification's question if there was none, and with
\* every key it had; and a key leaves the cache only in a successful delete
\* of that key, whatever else happens: publishes, connections opening,
\* replays, drops, disconnects and the keepalive sweep.
C27_CacheLifecycle ==
    [][/\ \A n \in outbox :
             Handles(n) =>
                 LET before == Get(pending_requests, n.room_id, <<>>)
                     after == Get(pending_requests', n.room_id, <<>>)
                     i == CachePos(before, n.request_id)
                     j == CachePos(after, n.request_id)
                 IN  /\ j # 0
                     /\ after[j].status = IF n.endpoint = "/notify/request-created"
                                          THEN "pending" ELSE "resolved"
                     /\ n.endpoint = "/notify/request-resolved"
                            => /\ after[j].answer = n.answer
                               /\ i # 0 => j = i /\ after[j].question = before[i].question
                               /\ i = 0 => after[j].question = n.question
                     /\ CacheKeys(pending_requests')
                            = CacheKeys(pending_requests) \cup {<<n.room_id, n.request_id>>}
       /\ \A k \in CacheKeys(pending_requests) \ CacheKeys(pending_requests') :
             /\ IsDelete
             /\ last'.code = 200
             /\ k = <<last'.room_id, last'.id>>]_vars

\* a request that was deleted from the cache is cached again, resolved,
\* beside another request, with a subscriber there and a sweep done
C27_ResolvedAfterDelete ==
    /\ last.op = "hub_clear"
    /\ last.code = 200
    /\ Cached(pending_requests, "room-1", last.id) # None
    /\ Cached(pending_requests, "room-1", last.id)[1].status = "resolved"
    /\ Used(Get(pending_requests, "room-1", <<>>)) = 2
    /\ Has(active_connections, "room-1")
    /\ sweeping.pinged # {}

\* the notifications whose handlers are running, and those that have returned
Running == {p.n : p \in publishing}
Done == {r.n : r \in published}

\* C29: whatever the order of the handler of a resolved notification, its
\* sends and the delete of the same room/request: the handler, once begun,
\* is running or has returned, and a handler that is running goes on
\* running or returns; right after the handler's update the cache holds the
\* request as resolved with the notification's answer, right after a
\* successful delete it does not hold it, and nothing else changes the
\* cache, so the later of the two decides; and none of these steps changes
\* the ledger in memory or on file.
C29_PublishDeleteRace ==
    [][/\ \A n \in outbox :
             (Handles(n) /\ n.endpoint = "/notify/request-resolved") =>
                 /\ n \in Running' \cup Done'
                 /\ Cached(pending_requests', n.room_id, n.request_id) # None
                 /\ Cached(pending_requests', n.room_id, n.request_id)[1].status = "resolved"
                 /\ Cached(pending_requests', n.room_id, n.request_id)[1].answer = n.answer
       /\ \A n \in Running : n \in Running' \cup Done'
       /\ (IsDelete /\ last'.code = 200)
             => Cached(pending_requests', last'.room_id, last'.id) = None
       /\ pending_requests' # pending_requests
             => IsDelete \/ \E n \in outbox : Handles(n)
       /\ (IsDelete \/ publishing' # publishing \/ published' # published)
             => /\ help_requests' = help_requests
                /\ requests_file' = requests_file]_vars

\* the cache entry of a request was deleted while the handler of its
\* resolved notification was suspended in a send; the request is Resolved
\* in the ledger
C29_DeletedDuringPublish ==
    /\ last.op = "hub_clear"
    /\ last.code = 200
    /\ Cached(pending_requests, ROOM, last.id) = None
    /\ \E p \in publishing :
           /\ p.n.endpoint = "/notify/request-resolved"
           /\ p.n.request_id = last.id
    /\ \E i \in EntriesOf(help_requests, last.id) : help_requests[i].status = "Resolved"
    /\ \E i \in EntriesOf(Ledger, last.id) : Ledger[i].status = "Resolved"

\* a tick of the keepalive sweep ends in this step
TickEnds == sweeping.phase = "ping" /\ sweeping'.phase = "asleep"

\* C28: when a tick of the sweep ends, every connection that was in the
\* lists when the tick began and is still in them has been pinged, every
\* connection whose ping failed is out of the list of its room, and no room
\* is left with an empty list; and the task is asleep until its next tick.
C28_SweepPingsAndPrunes ==
    [][TickEnds =>
          /\ \A c \in sweeping'.start :
                 c \in sweeping'.pinged \/ c \notin Subscribed(sockets[c].room)'
          /\ \A c \in sweeping'.failed : c \notin Subscribed(sockets[c].room)'
          /\ \A room_id \in DOMAIN active_connections' :
                 active_connections'[room_id] # <<>>]_vars

\* the websocket c in the state before a step, if it was there
Before(c) ==
    IF c <= Len(sockets) THEN sockets[c]
    ELSE [state |-> "replay", pos |-> 1, up |-> TRUE, received |-> <<>>,
          room |-> sockets'[c].room, size |-> sockets'[c].size, left |-> sockets'[c].size]

\* the step sends c an event of the replay
ReplaySends(c) == Before(c).state = "replay" /\ sockets'[c].pos > Before(c).pos

\* C24: the replay sends a connection, for an entry of the cache of its own
\* room, request_resolved with the answer if the entry is resolved and
\* request_created otherwise; a replay to a connection whose peer is there
\* is not given up before it has sent as many events as the room had
\* entries when the connection opened; and when the replay is over it has
\* sent that many, and every entry cached for the room has been sent.
C24_ReplayOnOpen ==
    [][\A c \in 1..Len(sockets') :
          LET cache == Get(pending_requests, sockets'[c].room, <<>>)
              entry == cache[sockets'[c].pos - 1]
          IN  /\ ReplaySends(c)
                 => /\ sockets'[c].received
                           = Append(Before(c).received, ReplayEvent(entry))
                    /\ ReplayEvent(entry).type
                           = IF entry.status = "resolved"
                             THEN "request_resolved" ELSE "request_created"
                    /\ entry.status = "resolved"
                           => ReplayEvent(entry).answer = entry.answer
              /\ (/\ Before(c).state = "replay"
                  /\ Before(c).up
                  /\ sockets'[c].state = "ended")
                 => Before(c).left = 0
              /\ (Before(c).state = "replay" /\ sockets'[c].state = "listen")
                 => /\ sockets'[c].left = 0
                    /\ \A i \in 1..Len(cache) :
                           Sent(c, {"request_created", "request_resolved"}, cache[i].id)]_vars

\* ------------------------------------------------------------------------
\* Properties of the agent's client.
\* ------------------------------------------------------------------------
\* C12: when the client's read meets a closed connection, the client leaves
\* its message loop: after that read it is no longer connected.
C12_LeavesClosedConnection ==
    [][client'.closed_reads # client.closed_reads => client'.conn = 0]_vars

\* the waits of five failed attempts in a row
BackoffSequence == <<5, 10, 20, 40, 60>>

\* C13: the waits after failed connection attempts are 5, 10, 20, 40, 60 in
\* this order, each the double of the one before it and at most 60 and never
\* shorter than the one before it, and after five failures in a row the
\* client makes no further attempt.
C13_CappedBackoff ==
    /\ [](/\ Len(client.waits) = client.retry_count
          /\ client.retry_count <= max_retries
          /\ \A i \in 1..Len(client.waits) :
                /\ client.waits[i] = BackoffSequence[i]
                /\ client.waits[i] = IF i = 1 THEN FIRST_DELAY
                                     ELSE Min(2 * client.waits[i - 1], DELAY_CAP)
                /\ i > 1 => client.waits[i] >= client.waits[i - 1])
    /\ [][client.retry_count = max_retries
             => /\ client'.conn = 0
                /\ client.conn = 0
                /\ client'.waits = client.waits
                /\ client'.retry_count = client.retry_count]_vars

\* C13, its case: the client gave up after five failures, the last wait at the cap
C13_GaveUp ==
    /\ client.retry_count = max_retries
    /\ client.waits[max_retries] = DELAY_CAP
    /\ client.conn = 0

\* the request_resolved events for a request that the client has read
ResolvedReads(id) ==
    IF client.conn = 0 THEN {}
    ELSE {k \in 1..client.read :
             /\ sockets[client.conn].received[k].type = "request_resolved"
             /\ sockets[client.conn].received[k].request_id = id}

\* C14: the answer of a request is spoken at most once, however many
\* request_resolved events for it the client reads; an event for a request
\* marked handled starts no delivery.
C14_SpokenAtMostOnce ==
    /\ [](\A id \in DOMAIN spoken : spoken[id] <= 1)
    /\ [][\A id \in DOMAIN client.pending :
             (/\ client.pending[id].handled
              /\ client'.read = client.read + 1
              /\ ResolvedReads(id)' # ResolvedReads(id))
             => (client'.task = None /\ spoken' = spoken)]_vars

\* C14, its case: the client has read two request_resolved events for one
\* request, a push and a replay, and has spoken its answer
C14_ReadTwice ==
    \E id \in DOMAIN spoken :
        /\ spoken[id] = 1
        /\ Cardinality(ResolvedReads(id)) >= 2
        /\ client.task = None

\* C15: once the client has spoken the answer of a request and its delayed
\* notification has run, the notification service's cache of the client's
\* room holds no entry for the request.
C15_CacheEntryRemoved ==
    \A id \in expired :
        Get(spoken, id, 0) >= 1 =>
            CachePos(Get(pending_requests, ROOM, <<>>), id) = 0

\* two normalized questions of which one equals, contains or is contained in
\* the other
Similar(q1, q2) == q1 = q2 \/ Contains(q1, q2) \/ Contains(q2, q1)

\* (client.asked and client.escalations hold the questions as the agent
\* normalizes them: lowercased, then stripped)
\* C16: when the client escalated q1 less than 5 minutes ago, an escalation
\* of a question whose normalized text equals, contains or is contained in
\* normalized q1 is suppressed: it draws no id, starts no write of the
\* ledger file and no call of the request service; so two escalations of
\* similar questions that both went through are at least 5 minutes apart.
C16_DuplicateSuppressed ==
    /\ [][\A e \in client.escalations :
              (/\ client'.asked # client.asked
               /\ now - e.at < ESCALATION_WINDOW
               /\ Similar(e.question, client'.asked[1].question))
              => /\ client'.asked[1].suppressed
                 /\ client'.escalating = None
                 /\ client'.escalations = client.escalations
                 /\ uuids' = uuids
                 /\ saving' = saving
                 /\ requests_file' = requests_file
                 /\ help_requests' = help_requests
                 /\ outbox' = outbox]_vars
    /\ [](\A e1 \in client.escalations, e2 \in client.escalations :
              (e1.at <= e2.at /\ e1 # e2 /\ Similar(e1.question, e2.question))
              => e2.at - e1.at >= ESCALATION_WINDOW)

\* C16, its case: within five minutes of the escalation of a question, the
\* escalation of a longer question that contains it was suppressed
C16_SuppressedLonger ==
    /\ client.asked # None
    /\ client.asked[1].suppressed
    /\ \E e \in client.escalations :
          /\ e.question # client.asked[1].question
          /\ Contains(client.asked[1].question, e.question)
          /\ client.asked[1].at > e.at
          /\ client.asked[1].at - e.at < ESCALATION_WINDOW
    /\ Len(Ledger) >= 1

\* ------------------------------------------------------------------------
\* Properties of the handshake.
\* ------------------------------------------------------------------------
\* C1: for every request that was resolved, its answer is spoken to the user
\* at most once and its delivery is acknowledged to the ledger at most once,
\* and once the answer has been spoken and the client's delayed notification
\* has run, the delivery has been acknowledged exactly once.
C1_DeliveredAndAcknowledgedOnce ==
    \A id \in DOMAIN resolutions :
        /\ Get(spoken, id, 0) <= 1
        /\ Get(acknowledged, id, 0) <= 1
        /\ (id \in expired /\ Get(spoken, id, 0) = 1) => Get(acknowledged, id, 0) = 1

\* ------------------------------------------------------------------------
\* Properties of the queries.
\* ------------------------------------------------------------------------
\* the ids drawn so far, in the order of the draws, without those in `done`
RECURSIVE Drawn(_, _)
Drawn(n, done) ==
    IF n = 0 THEN <<>>
    ELSE IF uuid4(n) \in done THEN Drawn(n - 1, done)
    ELSE Append(Drawn(n - 1, done), uuid4(n))

\* C31: what GET /pending-requests returns is, in the order of their
\* creation, one entry for every request that a call created and no
\* resolution has resolved, each with status "Pending" and no answer, and
\* no other entry.
C31_PendingExactlyUnresolved ==
    last.op = "pending" =>
        /\ [i \in 1..Len(last.requests) |-> last.requests[i].id]
               = Drawn(uuids, DOMAIN resolutions)
        /\ \A i \in 1..Len(last.requests) :
               /\ last.requests[i].status = "Pending"
               /\ last.requests[i].answer = None

\* two requests were created, one of them was resolved, and the query
\* returns the other one
C31_OnePendingOneResolved ==
    /\ last.op = "pending"
    /\ uuids = 2
    /\ DOMAIN resolutions = {uuid4(1)}
    /\ Len(last.requests) = 1

\* C32: a resolution that succeeds for a request with a question leaves the
\* learned answers, as persisted in knowledge_base.json, mapping the
\* normalized question to the answer, with every other learned entry as it
\* was; and if they already did so, it leaves them unchanged.
C32_LearnUpserts ==
    [][(last'.op = "resolve" /\ last'.code = 200 /\ last'.question # "")
       => LET q == Normalized(last'.question)
              learned == load_dynamic_knowledge(knowledge_file')
              before == load_dynamic_knowledge(knowledge_file)
          IN  /\ Has(learned, q)
              /\ learned[q] = last'.answer
              /\ DOMAIN learned = DOMAIN before \cup {q}
              /\ \A k \in DOMAIN before \ {q} : learned[k] = before[k]
              /\ (Has(before, q) /\ before[q] = last'.answer) => learned = before]_vars

\* C33: while help_requests.json cannot be parsed or holds neither a list
\* nor a dict, GET /pending-requests and GET /all-requests answer 200 with
\* an empty list, GET /check-request and POST /resolve-request answer 404,
\* and these requests leave the file as it is.
C33_UnreadableLedgerIsEmpty ==
    [][(requests_file \in {Corrupt, Scalar}) =>
          /\ last'.op \in {"pending", "all"} =>
                 /\ last'.code = 200
                 /\ last'.requests = <<>>
          /\ last'.op \in {"check", "resolve"} => last'.code = 404
          /\ last'.op \in {"pending", "all", "check", "resolve"} =>
                 /\ help_requests' = <<>>
                 /\ requests_file' = requests_file]_vars

\* a request was created, the file was damaged, and a query for the
\* request's id was answered 404
C33_LostToDamage ==
    /\ requests_file = Corrupt
    /\ uuids >= 1
    /\ last.op = "check"
    /\ last.code = 404
    /\ last.id = uuid4(1)

\* C34: an entry of the cache that is resolved is, in the next state, absent
\* or resolved with the same answer.
C34_ResolvedNeverReverts ==
    [][\A room_id \in DOMAIN pending_requests : \A id \in RequestIds :
          LET before == Cached(pending_requests, room_id, id)
              after == Cached(pending_requests', room_id, id)
          IN  (before # None /\ before[1].status = "resolved" /\ after # None)
              => /\ after[1].status = "resolved"
                 /\ after[1].answer = before[1].answer]_vars

\* C35: a connection that is in its replay and whose peer is there is, in
\* the next state, not ended and still in the list of its room.
C35_ReplaySurvivesCacheChange ==
    [][\A c \in 1..Len(sockets) :
          (sockets[c].state = "replay" /\ sockets[c].up)
          => /\ sockets'[c].state # "ended"
             /\ c \in Subscribed(sockets[c].room)']_vars

\* the ids POST /call has returned: the requests whose creation was posted
Created == {n.request_id : n \in {m \in outbox : m.endpoint = "/notify/request-created"}}

\* C36: GET /check-request for an id that a call has returned answers 200
\* with an entry of that id, and GET /all-requests returns an entry for
\* every id that a call has returned.
C36_NoEntryLost ==
    /\ (last.op = "check" /\ last.id \in Created)
       => /\ last.code = 200
          /\ last.request.id = last.id
    /\ last.op = "all"
       => \A id \in Created :
              \E i \in 1..Len(last.requests) : last.requests[i].id = id

\* C37: a notify handler has sent its event to every connection at most once.
C37_AtMostOneCopy ==
    \A p \in publishing : \A c \in DOMAIN p.sent : p.sent[c] <= 1

\* C38: an acknowledgement of delivery for a request that the ledger holds
\* as Resolved, made with the room on which the events of the request are
\* published, succeeds.
C38_AcknowledgeOnPublishedChannel ==
    [][(/\ last'.op = "clear"
        /\ \E i \in EntriesOf(help_requests, last'.id) :
               /\ help_requests[i].status = "Resolved"
               /\ Has(help_requests[i], "caller_info")
               /\ RoomOf(help_requests[i].caller_info) = last'.caller_id)
       => (last'.code = 200 /\ last'.success)]_vars

\* C39: every room of active_connections has at least one connection in
\* its list.
C39_NoEmptyRoom ==
    \A room_id \in DOMAIN active_connections : active_connections[room_id] # <<>>

\* the sweep has removed the last connection of a room, whose websocket
\* handler has not ended, and the room with it, while another room is there
C39_RoomPrunedBySweep ==
    /\ \E c \in sweeping.failed :
           /\ sockets[c].state # "ended"
           /\ ~Has(active_connections, sockets[c].room)
    /\ DOMAIN active_connections # {}

\* C40: when a tick in which a ping failed ends, every other connection
\* that was in the lists when the tick began, whose peer is there and which
\* is still in the list of its room, has been pinged in the tick.
C40_FailedPingSparesOthers ==
    [][(TickEnds /\ sweeping'.failed # {})
       => \A c \in sweeping'.start \ sweeping'.failed :
              (sockets[c].up /\ c \in Subscribed(sockets[c].room)')
              => c \in sweeping'.pinged]_vars

\* the requests whose delivery has been acknowledged
Acknowledged == {id \in DOMAIN acknowledged : acknowledged[id] >= 1}

\* C30: a request whose acknowledgement the client has scheduled (its Timer
\* runs or has run) or made is marked handled; the Timer of a request is
\* started in the step that ends the delivery attempt of that request; and
\* an acknowledgement is made only for a request whose Timer has run.
C30_AcknowledgeAfterDelivery ==
    /\ [](\A id \in timers \cup expired \cup Acknowledged :
              /\ Has(client.pending, id)
              /\ client.pending[id].handled)
    /\ [][/\ \A id \in timers' \ timers :
                 /\ client.task # None
                 /\ client.task[1].request_id = id
                 /\ client'.task = None
          /\ \A id \in DOMAIN acknowledged' :
                 acknowledged'[id] > Get(acknowledged, id, 0) => id \in expired]_vars

\* the answer of a request has been spoken, the request is marked handled
\* and its Timer has run delayed_notification
C30_DeliveredThenTimerRan ==
    \E id \in expired :
        /\ Get(spoken, id, 0) = 1
        /\ client.pending[id].handled
        /\ client.task = None

====
